---- MODULE Spec2Model ----
(***************************************************************************)
(* Verification model of the transformers_daemon package:                  *)
(*   - ModelManager   (model_manager.py)  the bounded model cache          *)
(*   - TaskScheduler  (task_scheduler.py) the cron matcher and poll loop   *)
(*   - AgentLoop      (agent_loop.py)     the action queue and its drain   *)
(* Every component runs as an asyncio task on one event loop: a coroutine  *)
(* keeps the loop until it awaits something that really suspends.          *)
(***************************************************************************)
EXTENDS Integers, Sequences, FiniteSets, TLC

\* ------------------------------------------------------------------ bounds
MaxCapacity == 2      \* largest max_loaded_models explored
MaxTime == 2          \* datetime.now() ranges over 0..MaxTime in the cache model
MaxPolls == 3         \* polls of the scheduler explored
MaxJitter == 2        \* seconds a sleep may overrun (scheduling delay, poll run time)
MaxCycles == 3        \* cycles of the agent loop explored
MaxActions == 3       \* actions the outside producers enqueue
MaxBeats == 2         \* heartbeats of the daemon's main loop explored
MaxSnapshots == 2     \* calls of get_status explored
MaxShutdowns == 2     \* calls of shutdown explored
MaxInteracts == 2     \* POST /interact requests explored
MaxReads == 2         \* reads of the thought log explored
MaxTicks == 3         \* poll ticks of a sampler explored
MaxFiles == 2         \* files changed between two scans of a watched directory

\* ------------------------------------------------------------ value domains
Names == {"A", "B", "C"}          \* model names passed to load_model / generate
Callers == {"c1", "c2"}           \* tasks that call into the ModelManager
NoCaller == "none"                \* the event loop is idle

VARIABLES
    \* ModelManager
    max_loaded,        \* self.max_loaded
    loaded_models,     \* self.loaded_models: keys in dict (insertion) order
    model_usage,       \* self.model_usage: <<[name, last_used]>> in dict order
    now,               \* the instant datetime.now() returns
    call,              \* per caller: position in load_model / generate, locals
    cpu,               \* the task the event loop is running, or NoCaller
    accessed,          \* history: instant of the latest access handing out each cached model
    \* TaskScheduler._should_execute seen as a function
    cron_task,         \* the task argument: its 'schedule' after str.split()
    cron_time,         \* the current_time argument
    cron_out,          \* [done, fires]: whether it was called, and what it returned
    \* TaskScheduler
    clock,             \* wall clock, in seconds since midnight
    tasks,             \* self.tasks
    has_agent,         \* self.agent_loop is not None
    sched_running,     \* self.running
    sched_pc,          \* position of run(): created, poll, sleep, exited
    polls,             \* polls made so far
    fire_log,          \* history: the jobs fired, [name, action, minute, raised]
    \* AgentLoop: the action queue
    pending_actions,   \* self.pending_actions
    enq_log,           \* history: every action in the order it was enqueued
    \* AgentLoop
    agent_running,     \* self.running
    agent_pc,          \* position of run(): created, top, behaviors, drain, update, sleep, exited
    cycle,             \* the local cycle of run()
    behaviors,         \* self.behaviors
    behavior_timers,   \* self.behavior_timers
    thoughts,          \* self.thoughts: the cycle number of each entry, oldest first
    thoughts_len,      \* len(self.thoughts)
    dispatched,        \* history: the actions _process_actions has taken, in order
    drains,            \* history: per drain, [start, from, count] (see DrainRecord)
    enq_live,          \* history: the seq of every action enqueued while self.running
    stop_requested,    \* history: stop() has been called on the agent loop
    consciousness_level,   \* daemon_state['consciousness_level'], in 1/ScoreUnit
    \* TransformersDaemon
    status,            \* self.state['status']
    uptime,            \* self.state['uptime'], in seconds
    cycles_completed,  \* self.state['cycles_completed']
    daemon_running,    \* self.running
    daemon_pc,         \* constructed, serving (start awaits gather), unwinding, exited
    config,            \* self.config: which components are enabled, the watch paths
    config_daemon,     \* the dict object self.config['daemon']
    made,              \* the components constructed (their reference is not None)
    comp_task,         \* per component: the state of the task start() created for it
    snapshots,         \* the dicts get_status has returned, as their holders see them
    shutdown_log,      \* history: the calls of shutdown()
    beats,             \* history: the heartbeats made
    \* APIServer and the other readers of the agent loop
    api_log,           \* history: the POST /interact requests, [message, status, before, after]
    recent_log,        \* history: the reads of the thought log, [count, had, got]
    \* EnhancedGitWatcher
    repo,              \* the repository: [branch, head]
    git_ok,            \* the git command can be run and succeeds
    last_seen,         \* [running, branch, head]: self._running, _last_branch, _last_head
    git_log,           \* history: the latest tick of _run, <<[n, seen, last, ok, events]>>
    git_tasks,         \* the tasks start() created: [task, states, awaits, calls, last_tick]
    \* EventMonitor
    watch,             \* the watched directory: [on, exists, modified] (modified: the
                       \* files newer than last_check; on: a monitor watches it)
    em_log             \* history: the latest scan, <<[n, exists, modified, before, after]>>

cacheVars == <<max_loaded, loaded_models, model_usage, now, call, cpu, accessed>>

cronVars == <<cron_task, cron_time, cron_out>>

schedVars == <<clock, tasks, has_agent, sched_running, sched_pc, polls, fire_log>>

queueVars == <<pending_actions, enq_log>>

agentVars ==
    <<agent_running, agent_pc, cycle, behaviors, behavior_timers, thoughts, thoughts_len,
      dispatched, drains, enq_live, stop_requested, consciousness_level>>

daemonVars ==
    <<status, uptime, cycles_completed, daemon_running, daemon_pc, config, config_daemon,
      made, comp_task, snapshots, shutdown_log, beats>>

apiVars == <<api_log, recent_log>>

samplerVars == <<repo, git_ok, last_seen, git_log, git_tasks, watch, em_log>>

vars ==
    <<cacheVars, cronVars, schedVars, queueVars, agentVars, daemonVars, apiVars, samplerVars>>

notCache == <<cronVars, schedVars, queueVars, agentVars, daemonVars, apiVars, samplerVars>>

notCron == <<cacheVars, schedVars, queueVars, agentVars, daemonVars, apiVars, samplerVars>>

notSched == <<cacheVars, cronVars, agentVars, daemonVars, apiVars, samplerVars>>

\* outside the agent loop, its queue and the clock
notAgent ==
    <<cacheVars, cronVars, tasks, has_agent, sched_running, sched_pc, polls, fire_log,
      daemonVars, apiVars, samplerVars>>

\* The parts of the state a specification of one component leaves alone.
CacheOff ==
    /\ max_loaded = 1
    /\ loaded_models = <<>>
    /\ model_usage = <<>>
    /\ now = 0
    /\ call = <<>>
    /\ cpu = "none"
    /\ accessed = <<>>

CronOff ==
    /\ cron_task = <<>>
    /\ cron_time = <<>>
    /\ cron_out = <<>>

SchedOff ==
    /\ clock = 0
    /\ tasks = <<>>
    /\ has_agent = FALSE
    /\ sched_running = FALSE
    /\ sched_pc = "off"
    /\ polls = 0
    /\ fire_log = <<>>

QueueOff ==
    /\ pending_actions = <<>>
    /\ enq_log = <<>>

AgentOff ==
    /\ agent_running = FALSE
    /\ agent_pc = "off"
    /\ cycle = 0
    /\ behaviors = <<>>
    /\ behavior_timers = <<>>
    /\ thoughts = <<>>
    /\ thoughts_len = 0
    /\ dispatched = <<>>
    /\ drains = <<>>
    /\ enq_live = {}
    /\ stop_requested = FALSE
    /\ consciousness_level = 0

DaemonOff ==
    /\ status = "initializing"
    /\ uptime = 0
    /\ cycles_completed = 0
    /\ daemon_running = FALSE
    /\ daemon_pc = "off"
    /\ config = <<>>
    /\ config_daemon = <<>>
    /\ made = {}
    /\ comp_task = <<>>
    /\ snapshots = <<>>
    /\ shutdown_log = <<>>
    /\ beats = 0

ApiOff ==
    /\ api_log = <<>>
    /\ recent_log = <<>>

SamplerOff ==
    /\ repo = <<>>
    /\ git_ok = FALSE
    /\ last_seen = <<>>
    /\ git_log = <<>>
    /\ git_tasks = <<>>
    /\ watch = <<>>
    /\ em_log = <<>>

\* ------------------------------------------------------------ ModelManager
Range(s) == {s[i] : i \in 1..Len(s)}

UsageNames(usage) == {usage[i].name : i \in 1..Len(usage)}

\* line 64 with the comparison weakened: unload only when already over capacity
NeedsUnload_StrictlyOver(loaded, maxLoaded) == Len(loaded) > maxLoaded

\* model_manager.py:64   if len(self.loaded_models) >= self.max_loaded
NeedsUnload(loaded, maxLoaded) == Len(loaded) >= maxLoaded

\* min made to return the last minimal item: among ties the newest entry goes
LruModel_LastMinimal(usage) ==
    usage[CHOOSE i \in 1..Len(usage) :
            /\ \A j \in 1..Len(usage) : usage[i].last_used <= usage[j].last_used
            /\ \A j \in (i + 1)..Len(usage) : usage[j].last_used > usage[i].last_used].name

\* model_manager.py:129-132   min(self.model_usage.items(), key=last_used)[0]
\* Python's min returns the first minimal item; a dict iterates in insertion order.
LruModel(usage) ==
    usage[CHOOSE i \in 1..Len(usage) :
            /\ \A j \in 1..Len(usage) : usage[i].last_used <= usage[j].last_used
            /\ \A j \in 1..(i - 1) : usage[j].last_used > usage[i].last_used].name

\* del d[key]
DelName(loaded, n) == SelectSeq(loaded, LAMBDA m : m # n)

\* the eviction made to leave the usage entry behind
DelUsage_Keeps(usage, n) == usage

\* model_manager.py:136   del self.model_usage[lru_model]
DelUsage(usage, n) == SelectSeq(usage, LAMBDA e : e.name # n)

\* d[key] = value on a dict: an existing key keeps its position, a new one goes last
SetUsage(usage, n, t) ==
    IF n \in UsageNames(usage)
    THEN [i \in 1..Len(usage) |->
            IF usage[i].name = n THEN [name |-> n, last_used |-> t] ELSE usage[i]]
    ELSE Append(usage, [name |-> n, last_used |-> t])

SetLoaded(loaded, n) == IF n \in Range(loaded) THEN loaded ELSE Append(loaded, n)

\* `await self._unload_least_used()` made a real suspension point
UnloadSuspends_Yields == TRUE

\* model_manager.py:65, 123-136: the awaited coroutine has no await of its own,
\* so awaiting it runs it to completion without handing the event loop back.
UnloadSuspends == FALSE

IdleCall == [pc |-> "idle", op |-> "none", name |-> "none", result |-> "none",
             pre |-> <<>>, full |-> FALSE, overlap |-> FALSE]

Running(c) == call[c].pc \notin {"off", "idle", "scheduled", "returned"}

\* A coroutine step can be taken by the task holding the loop, or by a suspended
\* task when the loop is free.
Runnable(c) == cpu = c \/ cpu = NoCaller

\* One task at a time calls into the manager (the second caller never calls).
InitCache ==
    /\ max_loaded \in 1..MaxCapacity
    /\ loaded_models = <<>>
    /\ model_usage = <<>>
    /\ now = 0
    /\ call = [c \in Callers |-> IF c = "c1" THEN IdleCall ELSE [IdleCall EXCEPT !.pc = "off"]]
    /\ cpu = NoCaller
    /\ accessed = [n \in Names |-> 0]
    /\ CronOff /\ SchedOff /\ QueueOff /\ AgentOff /\ DaemonOff /\ ApiOff /\ SamplerOff

\* Two tasks call load_model concurrently.
InitRace ==
    /\ max_loaded \in 1..MaxCapacity
    /\ loaded_models = <<>>
    /\ model_usage = <<>>
    /\ now = 0
    /\ call = [c \in Callers |-> IdleCall]
    /\ cpu = NoCaller
    /\ accessed = [n \in Names |-> 0]
    /\ CronOff /\ SchedOff /\ QueueOff /\ AgentOff /\ DaemonOff /\ ApiOff /\ SamplerOff

\* The wall clock advances between any two steps (it may also stand still).
Tick ==
    /\ now < MaxTime
    /\ now' = now + 1
    /\ UNCHANGED <<max_loaded, loaded_models, model_usage, call, cpu, accessed>>
    /\ UNCHANGED notCache

\* A task is created that will run load_model(name) or generate(prompt, name).
Invoke(c, op, n) ==
    /\ call[c].pc = "idle"
    /\ call' = [call EXCEPT ![c] =
                 [IdleCall EXCEPT !.pc = "scheduled", !.op = op, !.name = n,
                    !.full = (n \notin Range(loaded_models)
                              /\ Len(loaded_models) = max_loaded)]]
    /\ UNCHANGED <<max_loaded, loaded_models, model_usage, now, cpu, accessed>>
    /\ UNCHANGED notCache

\* The event loop starts the task: entry of load_model (line 53) or generate (line 91).
Start(c) ==
    /\ call[c].pc = "scheduled"
    /\ cpu = NoCaller
    /\ cpu' = c
    /\ call' = [call EXCEPT ![c].pc = IF call[c].op = "generate" THEN "g_check" ELSE "lm_check",
                            ![c].pre = <<loaded_models, model_usage>>,
                            ![c].overlap = \E d \in Callers \ {c} : call[d].pc = "scheduled"]
    /\ UNCHANGED <<max_loaded, loaded_models, model_usage, now, accessed>>
    /\ UNCHANGED notCache

\* generate, lines 99-100: load the model when it is not loaded
GenCheck(c) ==
    /\ call[c].pc = "g_check"
    /\ Runnable(c)
    /\ cpu' = c
    /\ call' = [call EXCEPT ![c].pc = IF call[c].name \notin Range(loaded_models)
                                      THEN "lm_check" ELSE "g_get"]
    /\ UNCHANGED <<max_loaded, loaded_models, model_usage, now, accessed>>
    /\ UNCHANGED notCache

\* How load_model ends: back in generate (line 103) or at the caller.
AfterLoad(c) == IF call[c].op = "generate" THEN "g_get" ELSE "returned"

LoopAfterLoad(c) == IF call[c].op = "generate" THEN c ELSE NoCaller

\* load_model, lines 59-61: already loaded, return the entry (nothing is updated)
LmHit(c) ==
    /\ call[c].pc = "lm_check"
    /\ Runnable(c)
    /\ call[c].name \in Range(loaded_models)
    /\ call' = [call EXCEPT ![c].pc = AfterLoad(c), ![c].result = "hit", ![c].pre = <<>>]
    /\ cpu' = LoopAfterLoad(c)
    /\ accessed' = [accessed EXCEPT ![call[c].name] = now]
    /\ UNCHANGED <<max_loaded, loaded_models, model_usage, now>>
    /\ UNCHANGED notCache

\* load_model, lines 64-65 and _unload_least_used, lines 123-136
LmMiss(c) ==
    /\ call[c].pc = "lm_check"
    /\ Runnable(c)
    /\ call[c].name \notin Range(loaded_models)
    /\ IF NeedsUnload(loaded_models, max_loaded) /\ model_usage # <<>>
       THEN /\ loaded_models' = DelName(loaded_models, LruModel(model_usage))
            /\ model_usage' = DelUsage(model_usage, LruModel(model_usage))
            /\ accessed' = [accessed EXCEPT ![LruModel(model_usage)] = 0]
            /\ cpu' = IF UnloadSuspends THEN NoCaller ELSE c
       ELSE /\ UNCHANGED <<loaded_models, model_usage, accessed>>
            /\ cpu' = c
    /\ call' = [call EXCEPT ![c].pc = "lm_load"]
    /\ UNCHANGED <<max_loaded, now>>
    /\ UNCHANGED notCache

\* load_model, lines 70-85: pipeline() succeeds, both dicts get the entry
LmLoadOk(c) ==
    /\ call[c].pc = "lm_load"
    /\ Runnable(c)
    /\ loaded_models' = SetLoaded(loaded_models, call[c].name)
    /\ model_usage' = SetUsage(model_usage, call[c].name, now)
    /\ accessed' = [accessed EXCEPT ![call[c].name] = now]
    /\ call' = [call EXCEPT ![c].pc = AfterLoad(c), ![c].result = "loaded", ![c].pre = <<>>]
    /\ cpu' = LoopAfterLoad(c)
    /\ UNCHANGED <<max_loaded, now>>
    /\ UNCHANGED notCache

\* load_model, lines 70 and 87-89: pipeline() raises, load_model returns None
LmLoadFail(c) ==
    /\ call[c].pc = "lm_load"
    /\ Runnable(c)
    /\ call' = [call EXCEPT ![c].pc = AfterLoad(c), ![c].result = "load_failed",
                            ![c].pre = IF call[c].op = "generate" THEN call[c].pre ELSE <<>>]
    /\ cpu' = LoopAfterLoad(c)
    /\ UNCHANGED <<max_loaded, loaded_models, model_usage, now, accessed>>
    /\ UNCHANGED notCache

\* generate, lines 103-106: the model is not available
GenUnavailable(c) ==
    /\ call[c].pc = "g_get"
    /\ Runnable(c)
    /\ call[c].name \notin Range(loaded_models)
    /\ call' = [call EXCEPT ![c].pc = "returned", ![c].result = "unavailable", ![c].pre = <<>>]
    /\ cpu' = NoCaller
    /\ UNCHANGED <<max_loaded, loaded_models, model_usage, now, accessed>>
    /\ UNCHANGED notCache

\* generate, lines 109-117: inference succeeds, last_used is refreshed
GenInferOk(c) ==
    /\ call[c].pc = "g_get"
    /\ Runnable(c)
    /\ call[c].name \in Range(loaded_models)
    /\ model_usage' = SetUsage(model_usage, call[c].name, now)
    /\ accessed' = [accessed EXCEPT ![call[c].name] = now]
    /\ call' = [call EXCEPT ![c].pc = "returned", ![c].result = "generated", ![c].pre = <<>>]
    /\ cpu' = NoCaller
    /\ UNCHANGED <<max_loaded, loaded_models, now>>
    /\ UNCHANGED notCache

\* generate, lines 110 and 119-121: the pipeline call raises, nothing is updated
GenInferFail(c) ==
    /\ call[c].pc = "g_get"
    /\ Runnable(c)
    /\ call[c].name \in Range(loaded_models)
    /\ call' = [call EXCEPT ![c].pc = "returned", ![c].result = "infer_failed", ![c].pre = <<>>]
    /\ cpu' = NoCaller
    /\ UNCHANGED <<max_loaded, loaded_models, model_usage, now, accessed>>
    /\ UNCHANGED notCache

\* The caller has taken the result; it may call again.
Collect(c) ==
    /\ call[c].pc = "returned"
    /\ call' = [call EXCEPT ![c] = IdleCall]
    /\ UNCHANGED <<max_loaded, loaded_models, model_usage, now, cpu, accessed>>
    /\ UNCHANGED notCache

\* cleanup, lines 146-150
Cleanup ==
    /\ cpu = NoCaller
    /\ loaded_models # <<>>
    /\ loaded_models' = <<>>
    /\ model_usage' = <<>>
    /\ accessed' = [n \in Names |-> 0]
    /\ UNCHANGED <<max_loaded, now, call, cpu>>
    /\ UNCHANGED notCache

NextCache ==
    \/ Tick
    \/ \E c \in Callers, op \in {"load_model", "generate"}, n \in Names : Invoke(c, op, n)
    \/ \E c \in Callers : Start(c)
    \/ \E c \in Callers : GenCheck(c)
    \/ \E c \in Callers : LmHit(c)
    \/ \E c \in Callers : LmMiss(c)
    \/ \E c \in Callers : LmLoadOk(c)
    \/ \E c \in Callers : LmLoadFail(c)
    \/ \E c \in Callers : GenUnavailable(c)
    \/ \E c \in Callers : GenInferOk(c)
    \/ \E c \in Callers : GenInferFail(c)
    \/ \E c \in Callers : Collect(c)
    \/ Cleanup

SpecCache == InitCache /\ [][NextCache]_vars

NextRace ==
    \/ \E c \in Callers, n \in Names : Invoke(c, "load_model", n)
    \/ \E c \in Callers : Start(c)
    \/ \E c \in Callers : LmHit(c)
    \/ \E c \in Callers : LmMiss(c)
    \/ \E c \in Callers : LmLoadOk(c)
    \/ \E c \in Callers : LmLoadFail(c)
    \/ \E c \in Callers : Collect(c)

SpecRace == InitRace /\ [][NextRace]_vars

\* ------------------------------------------------- TaskScheduler: cron matcher
\* A schedule field after split(): a sequence of characters.
Star == <<"*">>

DigitChars == {"0", "1", "2", "3", "4", "5", "6", "7", "8", "9"}

DigitVal(ch) ==
    CASE ch = "0" -> 0 [] ch = "1" -> 1 [] ch = "2" -> 2 [] ch = "3" -> 3 [] ch = "4" -> 4
      [] ch = "5" -> 5 [] ch = "6" -> 6 [] ch = "7" -> 7 [] ch = "8" -> 8 [] ch = "9" -> 9

\* int(field) returns a value (otherwise it raises ValueError)
IsInt(tok) == Len(tok) > 0 /\ \A i \in 1..Len(tok) : tok[i] \in DigitChars

RECURSIVE ParseInt(_)
\* int(field) on a string of decimal digits
ParseInt(tok) ==
    IF tok = <<>> THEN 0
    ELSE ParseInt(SubSeq(tok, 1, Len(tok) - 1)) * 10 + DigitVal(tok[Len(tok)])

\* task_scheduler.py:51-81  _should_execute.  A ValueError raised by int() is
\* caught at line 79 and makes the result False; the day, month and weekday
\* fields are unpacked at line 64 and never looked at again.
ShouldExecute(task, current_time) ==
    LET parts == task.schedule
    IN  IF Len(parts) # 5 THEN FALSE
        ELSE LET minute == parts[1]
                 hour == parts[2]
             IN  IF minute # Star /\ ~IsInt(minute) THEN FALSE
                 ELSE IF minute # Star /\ ParseInt(minute) # current_time.minute THEN FALSE
                 ELSE IF hour # Star /\ ~IsInt(hour) THEN FALSE
                 ELSE IF hour # Star /\ ParseInt(hour) # current_time.hour THEN FALSE
                 ELSE TRUE

\* Inputs of the matcher.
FieldTokens == {Star, <<"0">>, <<"9">>, <<"0", "9">>, <<"a">>}

Schedules ==
    [1..5 -> FieldTokens]
        \cup {<<>>, <<<<"a">>, <<"b">>>>, <<Star, Star, Star, Star>>,
              <<Star, Star, Star, Star, Star, Star>>}

Instants ==
    [minute : {0, 1}, hour : {9, 10}, day : {9, 15}, month : {9, 12}, weekday : {0, 3}]

InitCron ==
    /\ cron_task \in [schedule : Schedules]
    /\ cron_time \in Instants
    /\ cron_out = [done |-> FALSE, fires |-> FALSE]
    /\ CacheOff /\ SchedOff /\ QueueOff /\ AgentOff /\ DaemonOff /\ ApiOff /\ SamplerOff

\* One call of _should_execute(task, current_time)
CallShouldExecute ==
    /\ ~cron_out.done
    /\ cron_out' = [done |-> TRUE, fires |-> ShouldExecute(cron_task, cron_time)]
    /\ UNCHANGED <<cron_task, cron_time>>
    /\ UNCHANGED notCron

NextCron == CallShouldExecute

SpecCron == InitCron /\ [][NextCron]_vars

\* ------------------------------------------------------------ TaskScheduler
\* task_scheduler.py:37, 41   asyncio.sleep(60)
PollInterval == 60

\* datetime.now() for a wall clock in seconds since midnight (the date is fixed)
TimeOf(clk) ==
    [minute |-> (clk \div 60) % 60, hour |-> (clk \div 3600) % 24,
     day |-> 15, month |-> 6, weekday |-> 0]

\* The minute of the day an instant lies in.
MinuteOf(clk) == clk \div 60

\* the sleep cut to half a minute
AfterSleep_Half(clk, jitter) == clk + 30 + jitter

\* lines 37, 41: asyncio.sleep(60) returns no earlier than 60 s after it began
AfterSleep(clk, jitter) == clk + PollInterval + jitter

\* _record_thoughts made to post an action as the other handlers do
EnqueuedType_ThoughtsToo(action) ==
    CASE action = "generate_status_report" -> "report"
      [] action = "analyze_code_health" -> "code_health_check"
      [] action = "benchmark_models" -> "benchmark"
      [] action = "record_autonomous_thoughts" -> "thoughts"
      [] OTHER -> "nothing"

\* lines 92-101 and the handlers at 106-149: the type of the action a handler
\* passes to add_task; _record_thoughts and an unknown action enqueue nothing.
EnqueuedType(action) ==
    CASE action = "generate_status_report" -> "report"
      [] action = "analyze_code_health" -> "code_health_check"
      [] action = "benchmark_models" -> "benchmark"
      [] OTHER -> "nothing"

\* every job is made to post an action, whatever its action names
TaskEnqueues_AnyAction(task, agent) == agent

\* lines 119, 129, 139: if self.agent_loop
TaskEnqueues(task, agent) == agent /\ EnqueuedType(task.action) # "nothing"

\* insert(0, task): the new action goes ahead of the queued ones
AddTask_AtHead(queue, task) == <<task>> \o queue

\* agent_loop.py:319-322   self.pending_actions.append(task)
AddTask(queue, task) == Append(queue, task)

\* lines 47-49: the tasks that fire at current_time, in list order
DueTasks(ts, clk) == SelectSeq(ts, LAMBDA task : ShouldExecute(task, TimeOf(clk)))

\* lines 83-104 for each due task: the actions handed to add_task, in order;
\* seq numbers the enqueues (history).
NewActions(due, agent, count) ==
    LET posting == SelectSeq(due, LAMBDA task : TaskEnqueues(task, agent))
    IN  [k \in 1..Len(posting) |->
            [type |-> EnqueuedType(posting[k].action), seq |-> count + k]]

RECURSIVE AddAll(_, _)
\* the add_task calls of one poll
AddAll(queue, new) ==
    IF new = <<>> THEN queue ELSE AddAll(AddTask(queue, Head(new)), Tail(new))

Every == <<Star, Star, Star, Star, Star>>

AtNine == <<<<"0">>, <<"9">>, Star, Star, Star>>

TaskActions ==
    {"generate_status_report", "analyze_code_health", "benchmark_models",
     "record_autonomous_thoughts", "noop"}

\* config['tasks']: one or two jobs
TaskLists ==
    LET first == [name : {"t1"}, schedule : {Every, AtNine}, action : TaskActions]
        second == [name : {"t2"}, schedule : {Every, AtNine}, action : TaskActions]
    IN  {<<a>> : a \in first} \cup {<<a, b>> : a \in first, b \in second}

\* The scheduler is created shortly before 09:00.
StartTimes == {8 * 3600 + 59 * 60 + s : s \in {0, 30, 59}}

InitSched ==
    /\ clock \in StartTimes
    /\ tasks \in TaskLists
    /\ has_agent \in BOOLEAN
    /\ sched_running = FALSE
    /\ sched_pc = "created"
    /\ polls = 0
    /\ fire_log = <<>>
    /\ pending_actions = <<>>
    /\ enq_log = <<>>
    /\ CacheOff /\ CronOff /\ AgentOff /\ DaemonOff /\ ApiOff /\ SamplerOff

\* run, lines 31-32
SchedRun ==
    /\ sched_pc = "created"
    /\ sched_running' = TRUE
    /\ sched_pc' = "poll"
    /\ UNCHANGED <<clock, tasks, has_agent, polls, fire_log, queueVars>>
    /\ UNCHANGED notSched

\* the except clause of _execute_task taken away: the error leaves the for loop
TaskFaultCaught_Propagates == FALSE

\* _execute_task, lines 90-104: the handler runs inside try / except Exception
TaskFaultCaught == TRUE

\* lines 47-49 and 83-104: the due jobs _execute_task is called for, when the
\* handlers of the jobs named in failing raise.  An error that left
\* _execute_task would end the for loop (it is caught next at line 39).
FiredJobs(due, failing) ==
    IF TaskFaultCaught \/ \A k \in 1..Len(due) : due[k].name \notin failing
    THEN due
    ELSE SubSeq(due, 1, CHOOSE k \in 1..Len(due) :
                           /\ due[k].name \in failing
                           /\ \A j \in 1..(k - 1) : due[j].name \notin failing)

\* run, lines 34-41 and _check_and_execute_tasks, lines 43-49: one poll, in
\* which the handlers of the jobs named in failing raise before add_task
SchedPollWith(failing) ==
    /\ sched_pc = "poll"
    /\ sched_running
    /\ polls < MaxPolls
    /\ LET due == DueTasks(tasks, clock)
           fired == FiredJobs(due, failing)
           done == SelectSeq(fired, LAMBDA task : task.name \notin failing)
           new == NewActions(done, has_agent, Len(enq_log))
       IN  /\ fire_log' = fire_log \o
                 [k \in 1..Len(fired) |->
                    [name |-> fired[k].name, action |-> fired[k].action,
                     minute |-> MinuteOf(clock), raised |-> fired[k].name \in failing]]
           /\ pending_actions' = AddAll(pending_actions, new)
           /\ enq_log' = enq_log \o new
    /\ polls' = polls + 1
    /\ sched_pc' = "sleep"
    /\ UNCHANGED <<clock, tasks, has_agent, sched_running>>
    /\ UNCHANGED notSched

\* a poll in which no handler raises
SchedPoll == SchedPollWith({})

\* run, line 34: the loop ends once self.running is false
SchedExit ==
    /\ sched_pc = "poll"
    /\ ~sched_running
    /\ sched_pc' = "exited"
    /\ UNCHANGED <<clock, tasks, has_agent, sched_running, polls, fire_log, queueVars>>
    /\ UNCHANGED notSched

\* run, line 37: the sleep ends
SchedSleep(jitter) ==
    /\ sched_pc = "sleep"
    /\ clock' = AfterSleep(clock, jitter)
    /\ sched_pc' = "poll"
    /\ UNCHANGED <<tasks, has_agent, sched_running, polls, fire_log, queueVars>>
    /\ UNCHANGED notSched

\* stop, lines 151-154: called while the scheduler is not executing
SchedStop ==
    /\ sched_pc \in {"created", "sleep"}
    /\ sched_running' = FALSE
    /\ UNCHANGED <<clock, tasks, has_agent, sched_pc, polls, fire_log, queueVars>>
    /\ UNCHANGED notSched

NextSched ==
    \/ SchedRun
    \/ SchedPoll
    \/ SchedExit
    \/ \E jitter \in 0..MaxJitter : SchedSleep(jitter)
    \/ SchedStop

SpecSched == InitSched /\ [][NextSched]_vars

\* config['tasks'] with the key 'enabled' of each job: two jobs, the first
\* due every minute
JobLists ==
    {<<a, b>> : a \in [name : {"t1"}, schedule : {Every}, enabled : BOOLEAN,
                       action : {"generate_status_report"}],
               b \in [name : {"t2"}, schedule : {Every, AtNine}, enabled : BOOLEAN,
                       action : {"analyze_code_health", "record_autonomous_thoughts"}]}

InitJobs ==
    /\ clock \in StartTimes
    /\ tasks \in JobLists
    /\ has_agent = TRUE
    /\ sched_running = FALSE
    /\ sched_pc = "created"
    /\ polls = 0
    /\ fire_log = <<>>
    /\ pending_actions = <<>>
    /\ enq_log = <<>>
    /\ CacheOff /\ CronOff /\ AgentOff /\ DaemonOff /\ ApiOff /\ SamplerOff

\* The scheduler over jobs that carry an enabled flag and whose handlers may raise.
NextJobs ==
    \/ SchedRun
    \/ \E failing \in SUBSET {"t1", "t2"} : SchedPollWith(failing)
    \/ SchedExit
    \/ SchedSleep(0)
    \/ SchedStop

SpecJobs == InitJobs /\ [][NextJobs]_vars

\* ---------------------------------------------------------------- AgentLoop
\* agent_loop.py:29   config.get('loop_interval', 5)
LoopInterval == 5

\* agent_loop.py:108-109   the thought log keeps its last 100 entries
ThoughtCap == 100

\* lines 198-209 and the handlers at 214-278: the type of the action a behavior
\* appends to pending_actions; the other behaviors append nothing.
BehaviorAction(name) ==
    CASE name = "code_analyzer" -> "log_analysis"
      [] name = "documentation_updater" -> "documentation_check"
      [] name = "conversation_initiator" -> "conversation"
      [] OTHER -> "nothing"

\* the interval test made strict: a behavior waits for more than its interval
BehaviorDue_Strict(b, timers, current_time) ==
    b.enabled /\ current_time - timers[b.name] > b.interval

\* line 180 and line 187: the behavior is enabled and its interval has passed
BehaviorDue(b, timers, current_time) ==
    b.enabled /\ current_time - timers[b.name] >= b.interval

\* lines 228-231, 247-250, 274-278: the dict a behavior appends; seq numbers the
\* enqueues (history).  Only the keys _process_actions reads are kept.
BehaviorPosts(name, seq) ==
    CASE name = "code_analyzer" -> [type |-> "log_analysis", seq |-> seq, data |-> "analysis"]
      [] name = "conversation_initiator" ->
            [type |-> "conversation", seq |-> seq, message |-> "starter"]
      [] OTHER -> [type |-> BehaviorAction(name), seq |-> seq]

RECURSIVE ExecuteBehaviors(_, _, _, _, _)
\* _execute_behaviors, lines 175-189, over the behaviors bs in order: the new
\* <<pending_actions, enq_log, behavior_timers>>
ExecuteBehaviors(bs, queue, log, timers, current_time) ==
    IF bs = <<>> THEN <<queue, log, timers>>
    ELSE LET b == Head(bs)
             runs == BehaviorDue(b, timers, current_time)
             posts == runs /\ BehaviorAction(b.name) # "nothing"
             action == BehaviorPosts(b.name, Len(log) + 1)
         IN  ExecuteBehaviors(Tail(bs),
                 IF posts THEN Append(queue, action) ELSE queue,
                 IF posts THEN Append(log, action) ELSE log,
                 IF runs THEN [timers EXCEPT ![b.name] = current_time] ELSE timers,
                 current_time)

\* pop() instead of pop(0): the newest action first
NextAction_Last(queue) == Len(queue)

\* line 283   self.pending_actions.pop(0)
NextAction(queue) == 1

\* list.pop(i)
PopAt(queue, i) == SubSeq(queue, 1, i - 1) \o SubSeq(queue, i + 1, Len(queue))

\* the handler's try block raises and nothing catches it inside the drain
HandlerFaultCaught_Propagates == FALSE

\* lines 285 and 300-301: try / except Exception around the dispatch of one action
HandlerFaultCaught == TRUE

\* lines 286-298: what the dispatch of one action does.  action['data'] (line
\* 289) and action['message'] (line 292) raise KeyError when the key is absent;
\* a type other than the three known ones gets the warning of line 298.
HandlerOutcome(action) ==
    CASE action.type = "log_analysis" ->
            IF "data" \in DOMAIN action THEN "handled" ELSE "raised"
      [] action.type = "conversation" ->
            IF "message" \in DOMAIN action THEN "handled" ELSE "raised"
      [] action.type = "documentation_check" -> "handled"
      [] OTHER -> "unknown"

\* One drain (one call of _process_actions) in the history: the number of
\* actions enqueued (start) and dispatched (from) so far when it began, and how
\* many actions it has taken.
DrainRecord(enqueued, taken) == [start |-> enqueued, from |-> taken, count |-> 0]

TookAction(d) == [d EXCEPT !.count = d.count + 1]

\* The actions drain d has taken, in order.
DrainTook(d) == SubSeq(dispatched, d.from + 1, d.from + d.count)

\* agent_loop.py:311-315: the score is kept as a whole number of 1/ScoreUnit,
\* the least unit in which the three terms are whole for whole seconds, cycles
\* and thoughts (ScoreUnit is the least common multiple of 86400 / 0.3,
\* 10000 / 0.3 and 100 / 0.4).
ScoreUnit == 21600000

\* line 312   (uptime / 86400) * 0.3
UptimeWeight == 75

\* line 313   (cycles / 10000) * 0.3
CyclesWeight == 648

\* line 314   (thoughts_count / 100) * 0.4
ThoughtsWeight == 86400

\* the sum stored as it is
AtMostOne_Unclamped(x) == x

\* line 311   min(1.0, x)
AtMostOne(x) == IF x < ScoreUnit THEN x ELSE ScoreUnit

\* _update_consciousness, lines 303-317: the value stored in
\* daemon_state['consciousness_level']
UpdateConsciousness(up, cycles, thoughts_count) ==
    AtMostOne(up * UptimeWeight + cycles * CyclesWeight + thoughts_count * ThoughtsWeight)

\* agent_loop.py:109   self.thoughts[-100:] on a list longer than 100
KeepRecent(log) == SubSeq(log, Len(log) - ThoughtCap + 1, Len(log))

\* _consciousness_cycle, lines 100-109: the entry of this cycle is appended and
\* the list is cut when it has more than 100 entries
AppendThought(log, c) ==
    IF Len(Append(log, c)) > ThoughtCap THEN KeepRecent(Append(log, c)) ELSE Append(log, c)

\* config['behaviors']
BehaviorLists ==
    {<<>>,
     <<[name |-> "code_analyzer", interval |-> 5, enabled |-> TRUE]>>,
     <<[name |-> "documentation_updater", interval |-> 10, enabled |-> TRUE],
       [name |-> "conversation_initiator", interval |-> 5, enabled |-> TRUE]>>,
     <<[name |-> "conversation_initiator", interval |-> 5, enabled |-> FALSE],
       [name |-> "model_optimizer", interval |-> 5, enabled |-> TRUE]>>}

\* the types of the actions the other components pass to add_task: the
\* scheduler's report (task_scheduler.py:120) and the dict of
\* EventMonitor.trigger_event("conversation", data) (event_monitor.py:109),
\* which has no 'message' key
ProducerTypes == {"report", "conversation"}

\* __init__, lines 28-42; the wall clock is far from the epoch
InitAgent ==
    /\ clock = 1000
    /\ agent_running = FALSE
    /\ agent_pc = "created"
    /\ cycle = 0
    /\ behaviors \in BehaviorLists
    /\ behavior_timers =
          [n \in {behaviors[i].name : i \in {j \in 1..Len(behaviors) : behaviors[j].enabled}}
              |-> 0]
    /\ thoughts = <<>>
    /\ thoughts_len = 0
    /\ dispatched = <<>>
    /\ drains = <<>>
    /\ enq_live = {}
    /\ stop_requested = FALSE
    /\ consciousness_level = 0
    /\ pending_actions = <<>>
    /\ enq_log = <<>>
    /\ tasks = <<>>
    /\ has_agent = TRUE
    /\ sched_running = FALSE
    /\ sched_pc = "off"
    /\ polls = 0
    /\ fire_log = <<>>
    /\ CacheOff /\ CronOff /\ DaemonOff /\ ApiOff /\ SamplerOff

\* the drain made to hand the event loop back between two actions
AgentSuspended_MidDrain == agent_pc \in {"created", "drain", "sleep", "exited"}

\* The loop is free for other tasks: the agent loop is not between two awaits.
\* _execute_behaviors and _process_actions await nothing that suspends.
AgentSuspended == agent_pc \in {"created", "sleep", "exited"}

\* add_task, lines 319-322, called by the scheduler, the API or a monitor
AgentAddTask(type) ==
    /\ AgentSuspended
    /\ Len(SelectSeq(enq_log, LAMBDA a : "message" \notin DOMAIN a
                                         /\ a.type \in ProducerTypes)) < MaxActions
    /\ Len(drains) < MaxCycles
    /\ LET task == [type |-> type, seq |-> Len(enq_log) + 1]
       IN  /\ pending_actions' = AddTask(pending_actions, task)
           /\ enq_log' = Append(enq_log, task)
           /\ enq_live' = IF agent_running THEN enq_live \cup {task.seq} ELSE enq_live
    /\ UNCHANGED <<clock, agent_running, agent_pc, cycle, behaviors, behavior_timers,
                   thoughts, thoughts_len, dispatched, drains, stop_requested,
                   consciousness_level>>
    /\ UNCHANGED notAgent

\* run, lines 65-68
AgentRun ==
    /\ agent_pc = "created"
    /\ agent_running' = TRUE
    /\ cycle' = 0
    /\ agent_pc' = "top"
    /\ UNCHANGED <<clock, queueVars, behaviors, behavior_timers, thoughts, thoughts_len, dispatched, drains,
                   enq_live, stop_requested, consciousness_level>>
    /\ UNCHANGED notAgent

\* the drain called ahead of the behaviors
StepAfterThought_Drain == "drain"

\* run, lines 74-77: _consciousness_cycle is followed by _execute_behaviors
StepAfterThought == "behaviors"

\* run, lines 69-74 and _consciousness_cycle, lines 91-116 (consciousness_mode
\* on, a thought generated): the thought log grows by one, capped at its last 100
AgentCycleStart ==
    /\ agent_pc = "top"
    /\ agent_running
    /\ Len(drains) < MaxCycles
    /\ cycle' = cycle + 1
    /\ thoughts' = AppendThought(thoughts, cycle + 1)
    /\ thoughts_len' = Len(AppendThought(thoughts, cycle + 1))
    /\ agent_pc' = StepAfterThought
    /\ UNCHANGED <<clock, queueVars, agent_running, behaviors, behavior_timers, dispatched,
                   drains,
                   enq_live, stop_requested, consciousness_level>>
    /\ UNCHANGED notAgent

\* run, line 69: the loop ends once self.running is false
AgentExit ==
    /\ agent_pc = "top"
    /\ ~agent_running
    /\ agent_pc' = "exited"
    /\ UNCHANGED <<clock, queueVars, agent_running, cycle, behaviors, behavior_timers,
                   thoughts, thoughts_len, dispatched, drains,
                   enq_live, stop_requested, consciousness_level>>
    /\ UNCHANGED notAgent

\* run, line 77 and _execute_behaviors, lines 175-189
AgentBehaviors ==
    /\ agent_pc = "behaviors"
    /\ LET r == ExecuteBehaviors(behaviors, pending_actions, enq_log, behavior_timers, clock)
       IN  /\ pending_actions' = r[1]
           /\ enq_log' = r[2]
           /\ behavior_timers' = r[3]
           /\ drains' = Append(drains, DrainRecord(Len(r[2]), Len(dispatched)))
           /\ enq_live' = enq_live \cup ((Len(enq_log) + 1)..Len(r[2]))
    /\ agent_pc' = "drain"
    /\ UNCHANGED <<clock, agent_running, cycle, behaviors, thoughts, thoughts_len, dispatched,
                   stop_requested, consciousness_level>>
    /\ UNCHANGED notAgent

\* the drain made to test self.running as well
DrainGoesOn_WhileRunning(queue, running) == queue # <<>> /\ running

\* _process_actions, line 282   while self.pending_actions
DrainGoesOn(queue, running) == queue # <<>>

\* _process_actions, lines 282-301: one turn of the while loop.  An exception
\* that left _process_actions would be caught by run (lines 87-89), which logs
\* it and sleeps.
AgentProcessAction ==
    /\ agent_pc = "drain"
    /\ DrainGoesOn(pending_actions, agent_running)
    /\ LET action == pending_actions[NextAction(pending_actions)]
       IN  /\ dispatched' = Append(dispatched, action)
           /\ drains' = [drains EXCEPT ![Len(drains)] = TookAction(@)]
           /\ agent_pc' = IF HandlerOutcome(action) = "raised" /\ ~HandlerFaultCaught
                          THEN "sleep" ELSE "drain"
    /\ pending_actions' = PopAt(pending_actions, NextAction(pending_actions))
    /\ UNCHANGED <<clock, enq_log, agent_running, cycle, behaviors,
                   behavior_timers, thoughts, thoughts_len, enq_live, stop_requested,
                   consciousness_level>>
    /\ UNCHANGED notAgent

\* _process_actions, line 282: the list is empty, the drain is over
AgentDrainDone ==
    /\ agent_pc = "drain"
    /\ ~DrainGoesOn(pending_actions, agent_running)
    /\ agent_pc' = "update"
    /\ UNCHANGED <<clock, queueVars, agent_running, cycle, behaviors, behavior_timers,
                   thoughts, thoughts_len, dispatched, drains,
                   enq_live, stop_requested, consciousness_level>>
    /\ UNCHANGED notAgent

\* run, lines 83-85: _update_consciousness, then the sleep begins
AgentSleep ==
    /\ agent_pc = "update"
    /\ consciousness_level' = UpdateConsciousness(uptime, cycles_completed, thoughts_len)
    /\ agent_pc' = "sleep"
    /\ UNCHANGED <<clock, queueVars, agent_running, cycle, behaviors, behavior_timers,
                   thoughts, thoughts_len, dispatched, drains, enq_live, stop_requested>>
    /\ UNCHANGED notAgent

\* run, line 85: asyncio.sleep(self.loop_interval) ends
AgentWake(jitter) ==
    /\ agent_pc = "sleep"
    /\ clock' = clock + LoopInterval + jitter
    /\ agent_pc' = "top"
    /\ UNCHANGED <<queueVars, agent_running, cycle, behaviors, behavior_timers,
                   thoughts, thoughts_len, dispatched, drains,
                   enq_live, stop_requested, consciousness_level>>
    /\ UNCHANGED notAgent

\* stop, lines 328-331: called while the agent loop is not executing
AgentStop ==
    /\ AgentSuspended
    /\ agent_running' = FALSE
    /\ stop_requested' = TRUE
    /\ UNCHANGED <<clock, queueVars, agent_pc, cycle, behaviors, behavior_timers,
                   thoughts, thoughts_len, dispatched, drains,
                   enq_live, consciousness_level>>
    /\ UNCHANGED notAgent

NextAgent ==
    \/ \E type \in ProducerTypes : AgentAddTask(type)
    \/ AgentRun
    \/ AgentCycleStart
    \/ AgentExit
    \/ AgentBehaviors
    \/ AgentProcessAction
    \/ AgentDrainDone
    \/ AgentSleep
    \/ \E jitter \in 0..MaxJitter : AgentWake(jitter)
    \/ AgentStop

SpecAgent == InitAgent /\ [][NextAgent]_vars

\* The steps of the task running AgentLoop.run: the event loop runs a task that
\* is ready, and a sleep ends.
AgentLoopStep ==
    \/ AgentRun
    \/ AgentCycleStart
    \/ AgentExit
    \/ AgentBehaviors
    \/ AgentProcessAction
    \/ AgentDrainDone
    \/ AgentSleep
    \/ \E jitter \in 0..MaxJitter : AgentWake(jitter)

SpecAgentLive == InitAgent /\ [][NextAgent]_vars /\ WF_vars(AgentLoopStep)

\* stop, lines 328-331, called at any point of the cycle: from a signal
\* handler or from another thread, between two bytecodes of the loop
AgentStopAnywhere ==
    /\ agent_running
    /\ agent_running' = FALSE
    /\ stop_requested' = TRUE
    /\ UNCHANGED <<clock, queueVars, agent_pc, cycle, behaviors, behavior_timers, thoughts,
                   thoughts_len, dispatched, drains, enq_live, consciousness_level>>
    /\ UNCHANGED notAgent

\* One behavior that posts an action whenever it runs.
InitAgentStop ==
    /\ InitAgent
    /\ behaviors = <<[name |-> "code_analyzer", interval |-> 5, enabled |-> TRUE]>>

\* The agent loop, one producer, and a stop request that may come at any time.
NextAgentStop ==
    \/ AgentAddTask("conversation")
    \/ AgentRun
    \/ AgentCycleStart
    \/ AgentExit
    \/ AgentBehaviors
    \/ AgentProcessAction
    \/ AgentDrainDone
    \/ AgentSleep
    \/ AgentWake(0)
    \/ AgentStopAnywhere

SpecAgentStop == InitAgentStop /\ [][NextAgentStop]_vars /\ WF_vars(AgentLoopStep)

\* the except clause of run made to drop what is queued
QueueAfterFault_Cleared(queue) == <<>>

\* run, lines 87-89: the except clause logs the error and sleeps; it does not
\* touch self.pending_actions
QueueAfterFault(queue) == queue

\* run, lines 72-74 and 87-89: an exception leaves _consciousness_cycle.
\* _generate_thought catches its own errors (lines 118-146), so the error comes
\* after the thought was appended (line 112 onwards).
AgentThoughtFault ==
    /\ agent_pc = "top"
    /\ agent_running
    /\ cycle < MaxCycles
    /\ cycle' = cycle + 1
    /\ thoughts' = AppendThought(thoughts, cycle + 1)
    /\ thoughts_len' = Len(AppendThought(thoughts, cycle + 1))
    /\ pending_actions' = QueueAfterFault(pending_actions)
    /\ agent_pc' = "sleep"
    /\ UNCHANGED <<clock, enq_log, agent_running, behaviors, behavior_timers, dispatched,
                   drains, enq_live, stop_requested, consciousness_level>>
    /\ UNCHANGED notAgent

\* run, lines 77 and 87-89, _execute_behaviors, lines 179-187: an exception
\* leaves _execute_behaviors at its k-th behavior (a missing key, an interval
\* that is no number).  The behaviors before it have run; _execute_behavior
\* catches the errors of the behavior itself (lines 195-212).
AgentBehaviorsFault(k) ==
    /\ agent_pc = "behaviors"
    /\ cycle <= MaxCycles
    /\ k \in 1..Len(behaviors)
    /\ LET r == ExecuteBehaviors(SubSeq(behaviors, 1, k - 1), pending_actions, enq_log,
                                 behavior_timers, clock)
       IN  /\ pending_actions' = QueueAfterFault(r[1])
           /\ enq_log' = r[2]
           /\ behavior_timers' = r[3]
           /\ enq_live' = enq_live \cup ((Len(enq_log) + 1)..Len(r[2]))
    /\ agent_pc' = "sleep"
    /\ UNCHANGED <<clock, agent_running, cycle, behaviors, thoughts, thoughts_len, dispatched,
                   drains, stop_requested, consciousness_level>>
    /\ UNCHANGED notAgent

\* Two behaviors that post an action when they run.
InitAgentFault ==
    /\ InitAgent
    /\ behaviors = <<[name |-> "documentation_updater", interval |-> 10, enabled |-> TRUE],
                     [name |-> "conversation_initiator", interval |-> 5, enabled |-> TRUE]>>

\* The agent loop with cycles that fail before the drain, and one producer.
NextAgentFault ==
    \/ AgentAddTask("report")
    \/ AgentRun
    \/ AgentCycleStart
    \/ AgentThoughtFault
    \/ AgentExit
    \/ AgentBehaviors
    \/ \E k \in 1..2 : AgentBehaviorsFault(k)
    \/ AgentProcessAction
    \/ AgentDrainDone
    \/ AgentSleep
    \/ AgentWake(0)
    \/ AgentStop

SpecAgentFault == InitAgentFault /\ [][NextAgentFault]_vars

\* ------------------------------------------------------- TransformersDaemon
\* daemon.py:217   asyncio.sleep(5)
HeartbeatInterval == 5

\* The sleep of the heartbeat returns no sooner than after its interval; it
\* returns two days late when the process was suspended meanwhile.
LongPause == 172800

HeartbeatGaps == {HeartbeatInterval, HeartbeatInterval + LongPause}

\* The components start() makes a task for (lines 158-180), and its own loop.
Components == {"agent_loop", "task_scheduler", "event_monitor", "api_server", "bitcoin_miner"}

MainLoop == "main_loop"

\* The section of the configuration that enables a component (lines 102-131).
SectionOf(c) ==
    CASE c = "agent_loop" -> "agent"
      [] c = "task_scheduler" -> "task_scheduler"
      [] c = "event_monitor" -> "event_monitoring"
      [] c = "api_server" -> "api"
      [] c = "bitcoin_miner" -> "bitcoin_mining"

\* self.config['daemon'] as loaded
DaemonSection == [name |-> "TransformersDaemon"]

\* The value get_status puts under "config" (line 255): the dict object
\* self.config['daemon'] itself, not a copy of it.
LiveConfig == "self.config['daemon']"

\* get_status, lines 251-263: a new dict with the items of self.state, the
\* config section and a new dict of component flags.
StatusDict ==
    [status |-> status,
     uptime |-> uptime,
     cycles_completed |-> cycles_completed,
     consciousness_level |-> consciousness_level,
     config |-> LiveConfig,
     components |->
        [agent_loop |-> "agent_loop" \in made /\ agent_running,
         task_scheduler |-> "task_scheduler" \in made,
         event_monitor |-> "event_monitor" \in made,
         api_server |-> "api_server" \in made,
         model_manager |-> "model_manager" \in made]]

\* The daemon object exists and its process has not ended.
DaemonAlive == daemon_pc \in {"constructed", "serving", "unwinding"}

\* One call of get_status (by the /status route or by the embedding program).
\* It awaits nothing, so it reads all fields in one step of the event loop.
GetStatus ==
    /\ DaemonAlive
    /\ Len(snapshots) < MaxSnapshots
    /\ snapshots' = Append(snapshots, StatusDict)
    /\ UNCHANGED <<status, uptime, cycles_completed, daemon_running, daemon_pc, config,
                   config_daemon, made, comp_task, shutdown_log, beats>>
    /\ UNCHANGED <<cacheVars, cronVars, schedVars, queueVars, agentVars, apiVars, samplerVars>>

\* the counter kept modulo two: it wraps to zero
CyclesAfterBeat_Wraps(n) == (n + 1) % 2

\* daemon.py:203   self.state["cycles_completed"] += 1
CyclesAfterBeat(n) == n + 1

\* _main_loop, lines 199-217: one heartbeat, elapsed seconds after the last
\* (after start_time for the first one)
Heartbeat(elapsed) ==
    /\ daemon_pc = "serving"
    /\ comp_task[MainLoop] = "running"
    /\ daemon_running
    /\ beats < MaxBeats
    /\ uptime' = uptime + elapsed
    /\ cycles_completed' = CyclesAfterBeat(cycles_completed)
    /\ beats' = beats + 1
    /\ UNCHANGED <<status, daemon_running, daemon_pc, config, config_daemon, made,
                   comp_task, snapshots, shutdown_log>>
    /\ UNCHANGED <<cacheVars, cronVars, schedVars, queueVars, agentVars, apiVars, samplerVars>>

\* Every section enabled, the watch paths well formed.
FullConfig ==
    [agent |-> TRUE, task_scheduler |-> TRUE, event_monitoring |-> TRUE, api |-> TRUE,
     bitcoin_mining |-> TRUE, watch_paths_ok |-> TRUE]

\* a dependent of the agent loop constructed only when the agent loop is
MadeBy_NeedsAgent(cfg) ==
    {"model_manager"}
        \cup {c \in Components :
                 cfg[SectionOf(c)] /\ (c \in {"agent_loop", "api_server"} \/ cfg.agent)}

\* initialize_components, lines 98-135: what a configuration constructs
MadeBy(cfg) == {"model_manager"} \cup {c \in Components : cfg[SectionOf(c)]}

\* start, lines 158-183: a task for every component made, and the heartbeat
TasksOf(cfg) ==
    [t \in Components \cup {MainLoop} |->
        IF t = MainLoop \/ t \in MadeBy(cfg) THEN "running" ELSE "none"]

\* Configurations: everything enabled; the agent loop disabled with its
\* dependents enabled; a watch path that is not a mapping; the agent loop alone.
Configs ==
    {FullConfig,
     [FullConfig EXCEPT !.agent = FALSE],
     [FullConfig EXCEPT !.watch_paths_ok = FALSE],
     [agent |-> TRUE, task_scheduler |-> FALSE, event_monitoring |-> FALSE, api |-> FALSE,
      bitcoin_mining |-> FALSE, watch_paths_ok |-> TRUE]}

\* outside the daemon object, the running flag of its agent loop and the two
\* dicts of its model manager
notDaemon ==
    <<cronVars, schedVars, queueVars, max_loaded, now, call, cpu, accessed, agent_pc, cycle,
      behaviors, behavior_timers, thoughts, thoughts_len, dispatched, drains, enq_live,
      stop_requested,
      consciousness_level, apiVars, samplerVars>>

\* __init__, lines 33-58
InitDaemon ==
    /\ status = "initializing"
    /\ uptime = 0
    /\ cycles_completed = 0
    /\ daemon_running = FALSE
    /\ daemon_pc = "constructed"
    /\ config \in Configs
    /\ config_daemon = DaemonSection
    /\ made = {}
    /\ comp_task = [t \in Components \cup {MainLoop} |-> "none"]
    /\ snapshots = <<>>
    /\ shutdown_log = <<>>
    /\ beats = 0
    /\ CacheOff /\ CronOff /\ SchedOff /\ QueueOff /\ AgentOff /\ ApiOff /\ SamplerOff

\* start, lines 143-191, up to the await of gather: the components the
\* configuration enables are constructed (initialize_components, lines 84-141),
\* a task is created for each and for the heartbeat, and the tasks take their
\* first steps (AgentLoop.run sets its running flag, agent_loop.py:65).
DaemonStart ==
    /\ daemon_pc = "constructed"
    /\ daemon_running' = TRUE
    /\ status' = "running"
    /\ made' = MadeBy(config)
    /\ comp_task' = TasksOf(config)
    /\ agent_running' = ("agent_loop" \in MadeBy(config))
    /\ daemon_pc' = "serving"
    /\ UNCHANGED <<uptime, cycles_completed, config, config_daemon, snapshots, shutdown_log,
                   beats, loaded_models, model_usage>>
    /\ UNCHANGED notDaemon

\* shutdown, lines 238-248, called by `by`: the flag, the status, and
\* ModelManager.cleanup (model_manager.py:146-150).  No component is told to
\* stop.  Line 249 then raises SystemExit in the caller.
ShutdownBody(by) ==
    /\ daemon_running' = FALSE
    /\ status' = "shutdown"
    /\ loaded_models' = IF "model_manager" \in made THEN <<>> ELSE loaded_models
    /\ model_usage' = IF "model_manager" \in made THEN <<>> ELSE model_usage
    /\ shutdown_log' = Append(shutdown_log,
           [by |-> by, before |-> status, raised |-> "SystemExit"])
    /\ UNCHANGED <<uptime, cycles_completed, config, config_daemon, made, snapshots, beats,
                   agent_running>>
    /\ UNCHANGED notDaemon

\* _signal_handler, lines 79-82: SIGINT or SIGTERM is delivered.  The handler
\* stays installed while the process unwinds, so a second signal calls
\* shutdown again.  SystemExit leaves the handler into the interrupted code and
\* nothing catches it.
Signal ==
    /\ DaemonAlive
    /\ Len(shutdown_log) < MaxShutdowns
    /\ ShutdownBody("signal")
    /\ daemon_pc' = "unwinding"
    /\ UNCHANGED comp_task

\* api_server.py:139-149: POST /shutdown creates the task _delayed_shutdown,
\* which calls shutdown two seconds later; SystemExit leaves the task and the
\* event loop.
ApiShutdown ==
    /\ daemon_pc = "serving"
    /\ comp_task["api_server"] = "running"
    /\ Len(shutdown_log) < MaxShutdowns
    /\ ShutdownBody("api")
    /\ daemon_pc' = "unwinding"
    /\ UNCHANGED comp_task

\* The program that owns the daemon object calls shutdown() itself and handles
\* the SystemExit of line 249; the object and the tasks live on.
CallerShutdown ==
    /\ daemon_pc \in {"constructed", "serving"}
    /\ Len(shutdown_log) < MaxShutdowns
    /\ ShutdownBody("caller")
    /\ UNCHANGED <<daemon_pc, comp_task>>

\* event_monitor.py:37-39: run() raises AttributeError before its loop when a
\* watch path is not a mapping; gather (line 191) re-raises it in start, whose
\* except clause calls shutdown (lines 193-195).
EventMonitorRaises ==
    /\ daemon_pc = "serving"
    /\ comp_task["event_monitor"] = "running"
    /\ ~config.watch_paths_ok
    /\ comp_task' = [comp_task EXCEPT !["event_monitor"] = "raised"]
    /\ ShutdownBody("start")
    /\ daemon_pc' = "unwinding"

\* api_server.py:74-75: run() logs an error of the server and returns
ApiServerFails ==
    /\ daemon_pc = "serving"
    /\ comp_task["api_server"] = "running"
    /\ comp_task' = [comp_task EXCEPT !["api_server"] = "returned"]
    /\ UNCHANGED <<status, uptime, cycles_completed, daemon_running, daemon_pc, config,
                   config_daemon, made, snapshots, shutdown_log, beats>>
    /\ UNCHANGED <<cacheVars, cronVars, schedVars, queueVars, agentVars, apiVars, samplerVars>>

\* _main_loop, line 199: the heartbeat ends once self.running is false
MainLoopExit ==
    /\ daemon_pc = "serving"
    /\ comp_task[MainLoop] = "running"
    /\ ~daemon_running
    /\ comp_task' = [comp_task EXCEPT ![MainLoop] = "returned"]
    /\ UNCHANGED <<status, uptime, cycles_completed, daemon_running, daemon_pc, config,
                   config_daemon, made, snapshots, shutdown_log, beats>>
    /\ UNCHANGED <<cacheVars, cronVars, schedVars, queueVars, agentVars, apiVars, samplerVars>>

\* SystemExit reaches asyncio.run (line 274): the tasks still pending are
\* cancelled and the process ends.
ProcessExit ==
    /\ daemon_pc = "unwinding"
    /\ daemon_pc' = "exited"
    /\ comp_task' = [t \in DOMAIN comp_task |->
                        IF comp_task[t] = "running" THEN "cancelled" ELSE comp_task[t]]
    /\ UNCHANGED <<status, uptime, cycles_completed, daemon_running, config,
                   config_daemon, made, snapshots, shutdown_log, beats>>
    /\ UNCHANGED <<cacheVars, cronVars, schedVars, queueVars, agentVars, apiVars, samplerVars>>

\* The holder of the i-th returned dict assigns to its key "status".
HolderSetsStatus(i) ==
    /\ i \in 1..Len(snapshots)
    /\ snapshots[i].status # "edited"
    /\ snapshots' = [snapshots EXCEPT ![i].status = "edited"]
    /\ UNCHANGED <<status, uptime, cycles_completed, daemon_running, daemon_pc, config,
                   config_daemon, made, comp_task, shutdown_log, beats>>
    /\ UNCHANGED <<cacheVars, cronVars, schedVars, queueVars, agentVars, apiVars, samplerVars>>

\* The holder of the i-th returned dict assigns to d["config"]["name"]: the
\* value under "config" is the daemon's own dict (line 255).
HolderSetsConfigName(i) ==
    /\ i \in 1..Len(snapshots)
    /\ snapshots[i].config = LiveConfig
    /\ config_daemon.name # "edited"
    /\ config_daemon' = [config_daemon EXCEPT !.name = "edited"]
    /\ UNCHANGED <<status, uptime, cycles_completed, daemon_running, daemon_pc, config,
                   made, comp_task, snapshots, shutdown_log, beats>>
    /\ UNCHANGED <<cacheVars, cronVars, schedVars, queueVars, agentVars, apiVars, samplerVars>>

NextDaemon ==
    \/ DaemonStart
    \/ Signal
    \/ ApiShutdown
    \/ CallerShutdown
    \/ EventMonitorRaises
    \/ ApiServerFails
    \/ MainLoopExit
    \/ ProcessExit
    \/ Heartbeat(HeartbeatInterval)
    \/ GetStatus
    \/ \E i \in 1..MaxSnapshots : HolderSetsStatus(i)
    \/ \E i \in 1..MaxSnapshots : HolderSetsConfigName(i)

SpecDaemon == InitDaemon /\ [][NextDaemon]_vars

\* start, lines 158-183: the order in which the tasks are created
StartOrder ==
    <<"agent_loop", "task_scheduler", "event_monitor", "api_server", "bitcoin_miner", MainLoop>>

\* asyncio.run cancels the tasks still pending (runners._cancel_all_tasks): it
\* iterates the set all_tasks(), whose order is not specified, so the tasks
\* receive CancelledError in any order.  Here one of them receives it; no
\* component loop catches it (each catches Exception only).
CancelTask(t) ==
    /\ daemon_pc = "unwinding"
    /\ comp_task[t] = "running"
    /\ comp_task' = [comp_task EXCEPT ![t] = "cancelled"]
    /\ UNCHANGED <<status, uptime, cycles_completed, daemon_running, daemon_pc, config,
                   config_daemon, made, snapshots, shutdown_log, beats>>
    /\ UNCHANGED <<cacheVars, cronVars, schedVars, queueVars, agentVars, apiVars, samplerVars>>

\* Every pending task has been cancelled: the event loop closes, the process ends.
LoopClosed ==
    /\ \A t \in DOMAIN comp_task : comp_task[t] # "running"
    /\ ProcessExit

\* daemon.py:98-135 with every section of the configuration enabled
InitShutdown ==
    /\ InitDaemon
    /\ config = FullConfig

\* The daemon from start to the end of its process, the tasks cancelled one by one.
NextShutdown ==
    \/ DaemonStart
    \/ Heartbeat(HeartbeatInterval)
    \/ GetStatus
    \/ Signal
    \/ ApiShutdown
    \/ CallerShutdown
    \/ MainLoopExit
    \/ \E t \in Components \cup {MainLoop} : CancelTask(t)
    \/ LoopClosed

SpecShutdown == InitShutdown /\ [][NextShutdown]_vars

\* How many cycles the agent loop and the heartbeat have made when the
\* exploration begins: none (the tasks were just created), or two short of the
\* cap of the thought log.
CyclesBefore == {0, ThoughtCap - 2}

\* The daemon is serving; the agent loop has made n cycles and sleeps (or has
\* not run yet), and the heartbeat has kept pace with it.
InitScore ==
    /\ \E n \in CyclesBefore :
          /\ cycle = n
          /\ thoughts = [i \in 1..n |-> i]
          /\ thoughts_len = n
          /\ cycles_completed = n
          /\ uptime = n * HeartbeatInterval
          /\ consciousness_level =
                IF n = 0 THEN 0 ELSE UpdateConsciousness(n * HeartbeatInterval, n, n)
          /\ agent_running = (n # 0)
          /\ agent_pc = IF n = 0 THEN "created" ELSE "sleep"
    /\ clock = 1000
    /\ behaviors = <<>>
    /\ behavior_timers = <<>>
    /\ dispatched = <<>>
    /\ drains = <<>>
    /\ enq_live = {}
    /\ stop_requested = FALSE
    /\ status = "running"
    /\ daemon_running = TRUE
    /\ daemon_pc = "serving"
    /\ config = FullConfig
    /\ config_daemon = DaemonSection
    /\ made = MadeBy(FullConfig)
    /\ comp_task = TasksOf(FullConfig)
    /\ snapshots = <<>>
    /\ shutdown_log = <<>>
    /\ beats = 0
    /\ tasks = <<>>
    /\ has_agent = TRUE
    /\ sched_running = FALSE
    /\ sched_pc = "off"
    /\ polls = 0
    /\ fire_log = <<>>
    /\ CacheOff /\ CronOff /\ QueueOff /\ ApiOff /\ SamplerOff

\* The agent loop (no behaviors configured, no producer), the heartbeat and
\* the readers of the status.
NextScore ==
    \/ AgentRun
    \/ AgentCycleStart
    \/ AgentBehaviors
    \/ AgentDrainDone
    \/ AgentSleep
    \/ \E jitter \in 0..MaxJitter : AgentWake(jitter)
    \/ \E elapsed \in HeartbeatGaps : Heartbeat(elapsed)
    \/ GetStatus

SpecScore == InitScore /\ [][NextScore]_vars

\* ------------------------------------------- TaskScheduler with AgentLoop
\* One job that matches every minute, for each action a job may name.
EveryMinuteJobs == {<<[name |-> "t1", schedule |-> Every, action |-> a]>> : a \in TaskActions}

\* No behavior is enabled: none is configured, or the one configured is off.
DisabledBehaviors ==
    {<<>>, <<[name |-> "conversation_initiator", interval |-> 5, enabled |-> FALSE]>>}

\* The daemon has created the task of the scheduler and the task of the agent
\* loop (daemon.py:158-165); neither has run yet.
InitEndToEnd ==
    /\ clock = 1000
    /\ tasks \in EveryMinuteJobs
    /\ has_agent = TRUE
    /\ sched_running = FALSE
    /\ sched_pc = "created"
    /\ polls = 0
    /\ fire_log = <<>>
    /\ pending_actions = <<>>
    /\ enq_log = <<>>
    /\ agent_running = FALSE
    /\ agent_pc = "created"
    /\ cycle = 0
    /\ behaviors \in DisabledBehaviors
    /\ behavior_timers = <<>>
    /\ thoughts = <<>>
    /\ thoughts_len = 0
    /\ dispatched = <<>>
    /\ drains = <<>>
    /\ enq_live = {}
    /\ stop_requested = FALSE
    /\ consciousness_level = 0
    /\ CacheOff /\ CronOff /\ DaemonOff /\ ApiOff /\ SamplerOff

\* The two tasks share the event loop: a poll runs while the agent loop is
\* suspended, and it awaits nothing that suspends (add_task does not).
NextEndToEnd ==
    \/ SchedRun
    \/ AgentSuspended /\ SchedPoll
    \/ \E jitter \in 0..MaxJitter : SchedSleep(jitter)
    \/ AgentRun
    \/ AgentCycleStart
    \/ AgentBehaviors
    \/ AgentProcessAction
    \/ AgentDrainDone
    \/ AgentSleep
    \/ AgentWake(0)

SpecEndToEnd == InitEndToEnd /\ [][NextEndToEnd]_vars

\* ----------------------------------------------------------------- Samplers
\* git_watcher.py:310-311: what _run_git returns when git fails or is missing
NoneValue == "None"

Branches == {"main", "dev"}

Heads == {"h1", "h2"}

\* _get_current_branch and _get_head_commit, lines 126-132 and 302-311
Observed ==
    IF git_ok THEN [branch |-> repo.branch, head |-> repo.head]
    ELSE [branch |-> NoneValue, head |-> NoneValue]

\* lines 86-87: branch_changed or head_changed
GitChanged(seen, last) == seen.branch # last.branch \/ seen.head # last.head

\* lines 90-97: the event of a tick (the keys of the analysis are left out)
GitEvent(seen, last) ==
    [type |-> "git_heartbeat", branch |-> seen.branch, head |-> seen.head,
     changes_detected |-> GitChanged(seen, last)]

\* the handler called only for a tick that saw a change
GitEmits_OnlyOnChange(seen, last) ==
    IF GitChanged(seen, last) THEN <<GitEvent(seen, last)>> ELSE <<>>

\* lines 90-121: the events one tick hands to the handler.  No statement
\* between the sleep and the call of the handler tests changes_detected, and
\* none raises: _run_git and _analyze_commit catch every exception.
GitEmits(seen, last) == <<GitEvent(seen, last)>>

\* _run, lines 76-124: one turn of the loop, after its sleep
GitTurn ==
    /\ last_seen.running
    /\ IF git_log = <<>> THEN TRUE ELSE git_log[1].n < MaxTicks
    /\ LET last == [branch |-> last_seen.branch, head |-> last_seen.head]
       IN  git_log' =
              <<[n |-> IF git_log = <<>> THEN 1 ELSE git_log[1].n + 1,
                 seen |-> Observed, last |-> last, ok |-> git_ok,
                 events |-> GitEmits(Observed, last)]>>
    /\ last_seen' = [last_seen EXCEPT !.branch = Observed.branch, !.head = Observed.head]
    /\ UNCHANGED <<repo, git_ok, watch, em_log>>
    /\ UNCHANGED <<cacheVars, cronVars, schedVars, queueVars, agentVars, daemonVars, apiVars>>

\* a turn of the loop of the one task a started watcher has
GitTick == GitTurn /\ UNCHANGED git_tasks

\* Someone commits: HEAD moves.
GitCommit ==
    /\ last_seen.running
    /\ \E h \in Heads \ {repo.head} : repo' = [repo EXCEPT !.head = h]
    /\ UNCHANGED <<git_ok, last_seen, git_log, git_tasks, watch, em_log>>
    /\ UNCHANGED <<cacheVars, cronVars, schedVars, queueVars, agentVars, daemonVars, apiVars>>

\* Someone checks out the other branch.
GitCheckout ==
    /\ last_seen.running
    /\ \E b \in Branches \ {repo.branch} : repo' = [repo EXCEPT !.branch = b]
    /\ UNCHANGED <<git_ok, last_seen, git_log, git_tasks, watch, em_log>>
    /\ UNCHANGED <<cacheVars, cronVars, schedVars, queueVars, agentVars, daemonVars, apiVars>>

\* The git binary goes away (or the directory stops being a repository), or
\* comes back.
GitAvailability ==
    /\ last_seen.running
    /\ git_ok' = ~git_ok
    /\ UNCHANGED <<repo, last_seen, git_log, git_tasks, watch, em_log>>
    /\ UNCHANGED <<cacheVars, cronVars, schedVars, queueVars, agentVars, daemonVars, apiVars>>

\* event_monitor.py:61 and 85: the path is a directory, some file is newer
\* than the last check, and there is an agent loop
ScanPosts(w, agent) == w.exists /\ w.modified > 0 /\ agent

\* lines 88-93: the one action of a scan; files counts the changed files it
\* lists; seq numbers the enqueues (history)
FileChangeEvent(w, seq) == [type |-> "file_change_event", seq |-> seq, files |-> w.modified]

\* _check_file_changes and _scan_directory, lines 51-96, for the watched path:
\* one tick of the monitor
EmScan ==
    /\ watch.on
    /\ IF em_log = <<>> THEN TRUE ELSE em_log[1].n < MaxTicks
    /\ LET queue == IF ScanPosts(watch, has_agent)
                    THEN AddTask(pending_actions, FileChangeEvent(watch, Len(enq_log) + 1))
                    ELSE pending_actions
       IN  /\ pending_actions' = queue
           /\ enq_log' = IF ScanPosts(watch, has_agent)
                         THEN Append(enq_log, FileChangeEvent(watch, Len(enq_log) + 1))
                         ELSE enq_log
           /\ em_log' =
                 <<[n |-> IF em_log = <<>> THEN 1 ELSE em_log[1].n + 1,
                    exists |-> watch.exists, modified |-> watch.modified,
                    before |-> pending_actions, after |-> queue]>>
    /\ watch' = IF watch.exists THEN [watch EXCEPT !.modified = 0] ELSE watch
    /\ UNCHANGED <<repo, git_ok, last_seen, git_log, git_tasks>>
    /\ UNCHANGED <<cacheVars, cronVars, schedVars, agentVars, daemonVars, apiVars>>

\* A file of the watched directory is written.
FileWritten ==
    /\ watch.on
    /\ watch.exists
    /\ watch.modified < MaxFiles
    /\ watch' = [watch EXCEPT !.modified = @ + 1]
    /\ UNCHANGED <<repo, git_ok, last_seen, git_log, git_tasks, em_log>>
    /\ UNCHANGED <<cacheVars, cronVars, schedVars, queueVars, agentVars, daemonVars, apiVars>>

\* The watched directory is removed, or created (empty).
PathAvailability ==
    /\ watch.on
    /\ watch' = [watch EXCEPT !.exists = ~watch.exists, !.modified = 0]
    /\ UNCHANGED <<repo, git_ok, last_seen, git_log, git_tasks, em_log>>
    /\ UNCHANGED <<cacheVars, cronVars, schedVars, queueVars, agentVars, daemonVars, apiVars>>

\* A git watcher has been started on a repository (git_watcher.py:35-62), or an
\* event monitor on one watched path (event_monitor.py:20-39).
InitSampler ==
    /\ repo \in [branch : Branches, head : Heads]
    /\ git_ok \in BOOLEAN
    /\ git_log = <<>>
    /\ git_tasks = <<>>
    /\ em_log = <<>>
    /\ \/ /\ last_seen = [running |-> TRUE, branch |-> NoneValue, head |-> NoneValue]
          /\ watch = [on |-> FALSE, exists |-> FALSE, modified |-> 0]
          /\ has_agent = FALSE
       \/ /\ last_seen = [running |-> FALSE, branch |-> NoneValue, head |-> NoneValue]
          /\ watch \in [on : {TRUE}, exists : BOOLEAN, modified : {0}]
          /\ has_agent \in BOOLEAN
    /\ clock = 0
    /\ tasks = <<>>
    /\ sched_running = FALSE
    /\ sched_pc = "off"
    /\ polls = 0
    /\ fire_log = <<>>
    /\ CacheOff /\ CronOff /\ QueueOff /\ AgentOff /\ DaemonOff /\ ApiOff

NextSampler ==
    \/ GitTick
    \/ GitCommit
    \/ GitCheckout
    \/ GitAvailability
    \/ EmScan
    \/ FileWritten
    \/ PathAvailability

SpecSampler == InitSampler /\ [][NextSampler]_vars

\* the loop of _run made to catch the cancellation and go on to its while test
CancelEndsTask_Caught == FALSE

\* _run, lines 77 and 121-124: CancelledError is raised at the await the task
\* is suspended in; it is no Exception, so line 123 lets it leave _run
CancelEndsTask == TRUE

\* start, lines 57-63: no await, one step
WatcherStart ==
    /\ git_tasks.calls < MaxTicks
    /\ IF last_seen.running
       THEN /\ git_tasks' = [git_tasks EXCEPT !.calls = @ + 1]
            /\ UNCHANGED last_seen
       ELSE /\ last_seen' = [last_seen EXCEPT !.running = TRUE]
            /\ git_tasks' = [git_tasks EXCEPT !.calls = @ + 1,
                                              !.states = Append(@, "running"),
                                              !.task = Len(git_tasks.states) + 1]
    /\ UNCHANGED <<repo, git_ok, git_log, watch, em_log>>
    /\ UNCHANGED <<cacheVars, cronVars, schedVars, queueVars, agentVars, daemonVars, apiVars>>

\* stop, lines 65-71, up to its await: the flag is cleared and the task is
\* cancelled; the caller is suspended until the task is done (awaiting a task
\* that is done already does not suspend)
WatcherStopCall ==
    /\ last_seen' = [last_seen EXCEPT !.running = FALSE]
    /\ git_tasks' =
          IF git_tasks.task = 0 \/ git_tasks.states[git_tasks.task] = "done"
          THEN git_tasks
          ELSE [git_tasks EXCEPT !.states[git_tasks.task] = "cancelled",
                                 !.awaits = @ \cup {git_tasks.task}]
    /\ UNCHANGED <<repo, git_ok, git_log, watch, em_log>>
    /\ UNCHANGED <<cacheVars, cronVars, schedVars, queueVars, agentVars, daemonVars, apiVars>>

\* stop, lines 70-72: the awaited task is done, stop returns
WatcherStopReturn(i) ==
    /\ i \in git_tasks.awaits
    /\ git_tasks.states[i] = "done"
    /\ git_tasks' = [git_tasks EXCEPT !.awaits = @ \ {i}]
    /\ UNCHANGED <<repo, git_ok, last_seen, git_log, watch, em_log>>
    /\ UNCHANGED <<cacheVars, cronVars, schedVars, queueVars, agentVars, daemonVars, apiVars>>

\* The event loop resumes a cancelled task: CancelledError at its await.
TaskCancelled(i) ==
    /\ i \in 1..Len(git_tasks.states)
    /\ git_tasks.states[i] = "cancelled"
    /\ git_tasks' = [git_tasks EXCEPT !.states[i] =
                        IF CancelEndsTask \/ ~last_seen.running THEN "done" ELSE "running"]
    /\ UNCHANGED <<repo, git_ok, last_seen, git_log, watch, em_log>>
    /\ UNCHANGED <<cacheVars, cronVars, schedVars, queueVars, agentVars, daemonVars, apiVars>>

\* _run, lines 76-124, in task i: its sleep ends and it makes one turn
WatcherTick(i) ==
    /\ i \in 1..Len(git_tasks.states)
    /\ git_tasks.states[i] = "running"
    /\ GitTurn
    /\ git_tasks' = [git_tasks EXCEPT !.last_tick = i]

\* git_watcher.py:35-55: a watcher has been constructed, not started
InitWatcher ==
    /\ repo \in [branch : Branches, head : Heads]
    /\ git_ok = TRUE
    /\ git_log = <<>>
    /\ git_tasks = [task |-> 0, states |-> <<>>, awaits |-> {}, calls |-> 0, last_tick |-> 0]
    /\ em_log = <<>>
    /\ last_seen = [running |-> FALSE, branch |-> NoneValue, head |-> NoneValue]
    /\ watch = [on |-> FALSE, exists |-> FALSE, modified |-> 0]
    /\ has_agent = FALSE
    /\ clock = 0
    /\ tasks = <<>>
    /\ sched_running = FALSE
    /\ sched_pc = "off"
    /\ polls = 0
    /\ fire_log = <<>>
    /\ CacheOff /\ CronOff /\ QueueOff /\ AgentOff /\ DaemonOff /\ ApiOff

\* start() and stop() called in any order by any coroutines, the polling tasks,
\* and commits to the repository.
NextWatcher ==
    \/ WatcherStart
    \/ WatcherStopCall
    \/ \E i \in 1..MaxTicks : WatcherStopReturn(i)
    \/ \E i \in 1..MaxTicks : TaskCancelled(i)
    \/ \E i \in 1..MaxTicks : WatcherTick(i)
    \/ GitCommit

SpecWatcher == InitWatcher /\ [][NextWatcher]_vars

\* A scan is not one step for the processes that write the files.  Here it is
\* taken in its two parts, with two more fields of watch: scan, the part the
\* scan is in, and found, len(recent_files).
\* _scan_directory, lines 75-79: the loop over path.glob has read every mtime
EmScanRead ==
    /\ watch.on
    /\ watch.scan = "idle"
    /\ IF em_log = <<>> THEN TRUE ELSE em_log[1].n < MaxTicks
    /\ watch' = [watch EXCEPT !.scan = "read", !.found = watch.modified]
    /\ UNCHANGED <<repo, git_ok, last_seen, git_log, git_tasks, em_log>>
    /\ UNCHANGED <<cacheVars, cronVars, schedVars, queueVars, agentVars, daemonVars, apiVars>>

\* _scan_directory, lines 82-93: last_check becomes now(), later than the
\* mtime of every file written so far, and the files found are posted
EmScanRecord ==
    /\ watch.on
    /\ watch.scan = "read"
    /\ LET seen == [watch EXCEPT !.modified = watch.found]
           queue == IF ScanPosts(seen, has_agent)
                    THEN AddTask(pending_actions, FileChangeEvent(seen, Len(enq_log) + 1))
                    ELSE pending_actions
       IN  /\ pending_actions' = queue
           /\ enq_log' = IF ScanPosts(seen, has_agent)
                         THEN Append(enq_log, FileChangeEvent(seen, Len(enq_log) + 1))
                         ELSE enq_log
           /\ em_log' =
                 <<[n |-> IF em_log = <<>> THEN 1 ELSE em_log[1].n + 1,
                    exists |-> watch.exists, modified |-> watch.found,
                    before |-> pending_actions, after |-> queue]>>
    /\ watch' = [watch EXCEPT !.scan = "idle", !.found = 0, !.modified = 0]
    /\ UNCHANGED <<repo, git_ok, last_seen, git_log, git_tasks>>
    /\ UNCHANGED <<cacheVars, cronVars, schedVars, agentVars, daemonVars, apiVars>>

\* An event monitor with an agent loop has been started on a directory that exists.
InitScan ==
    /\ repo \in [branch : Branches, head : Heads]
    /\ git_ok \in BOOLEAN
    /\ git_log = <<>>
    /\ git_tasks = <<>>
    /\ em_log = <<>>
    /\ last_seen = [running |-> FALSE, branch |-> NoneValue, head |-> NoneValue]
    /\ watch = [on |-> TRUE, exists |-> TRUE, modified |-> 0, scan |-> "idle", found |-> 0]
    /\ has_agent = TRUE
    /\ clock = 0
    /\ tasks = <<>>
    /\ sched_running = FALSE
    /\ sched_pc = "off"
    /\ polls = 0
    /\ fire_log = <<>>
    /\ CacheOff /\ CronOff /\ QueueOff /\ AgentOff /\ DaemonOff /\ ApiOff

\* The scan in its two parts, and files written at any moment.
NextScan ==
    \/ EmScanRead
    \/ EmScanRecord
    \/ FileWritten

SpecScan == InitScan /\ [][NextScan]_vars

\* ---------------------------------------------------------------- APIServer
\* The 'message' of the body of a POST /interact: given, or absent, for which
\* message.get('message', '') is the empty string (api_server.py:121).
Messages == {"hello", ""}

\* api_server.py:127-131: the dict the route passes to add_task; seq numbers
\* the enqueues (history)
InteractAction(msg, seq) == [type |-> "user_interaction", seq |-> seq, message |-> msg]

\* api_server.py:126 and 110   if self.daemon.agent_loop
HasAgentLoop == "agent_loop" \in made

\* The event loop can run a request handler: the agent loop, when there is
\* one, is suspended.
ApiCanRun ==
    /\ daemon_pc = "serving"
    /\ comp_task["api_server"] = "running"
    /\ HasAgentLoop => AgentSuspended

\* POST /interact, lines 118-137
Interact(msg) ==
    /\ ApiCanRun
    /\ Len(api_log) < MaxInteracts
    /\ Len(drains) < MaxCycles
    /\ LET task == InteractAction(msg, Len(enq_log) + 1)
           queue == IF HasAgentLoop THEN AddTask(pending_actions, task) ELSE pending_actions
       IN  /\ pending_actions' = queue
           /\ enq_log' = IF HasAgentLoop THEN Append(enq_log, task) ELSE enq_log
           /\ enq_live' = IF HasAgentLoop /\ agent_running
                          THEN enq_live \cup {task.seq} ELSE enq_live
           /\ api_log' = Append(api_log,
                  [message |-> msg, status |-> "received", before |-> pending_actions,
                   after |-> queue])
    /\ UNCHANGED <<clock, agent_running, agent_pc, cycle, behaviors, behavior_timers, thoughts,
                   thoughts_len, dispatched, drains, stop_requested, consciousness_level,
                   recent_log>>
    /\ UNCHANGED <<cacheVars, cronVars, tasks, has_agent, sched_running, sched_pc, polls,
                   fire_log, daemonVars, samplerVars>>

\* s[start:] on a list: a negative start counts from the end, and a start
\* outside the list is cut to its bounds.
SliceFrom(log, start) ==
    LET fromEnd == IF start < 0 THEN start + Len(log) ELSE start
        first == IF fromEnd < 0 THEN 0 ELSE IF fromEnd > Len(log) THEN Len(log) ELSE fromEnd
    IN  SubSeq(log, first + 1, Len(log))

\* get_recent_thoughts, agent_loop.py:324-326   self.thoughts[-count:]
RecentThoughts(log, count) == SliceFrom(log, 0 - count)

\* api_server.py:111   get_recent_thoughts(count=20)
RouteCount == 20

\* the numbers of thoughts asked for
Counts == {0, 2, 20}

\* get_recent_thoughts(count) called by a component or by the embedding
\* program (task_scheduler.py:148, quick_demo.py:114)
GetRecentThoughts(count) ==
    /\ HasAgentLoop
    /\ AgentSuspended
    /\ Len(recent_log) < MaxReads
    /\ recent_log' = Append(recent_log,
           [by |-> "call", count |-> count, had |-> thoughts,
            got |-> RecentThoughts(thoughts, count)])
    /\ UNCHANGED <<cacheVars, cronVars, schedVars, queueVars, agentVars, daemonVars, api_log,
                   samplerVars>>

\* GET /thoughts?count=N, lines 107-116: the route declares no parameter, so
\* the count of the query string is not read
GetThoughtsRoute(count) ==
    /\ ApiCanRun
    /\ Len(recent_log) < MaxReads
    /\ recent_log' = Append(recent_log,
           [by |-> "route", count |-> count, had |-> thoughts,
            got |-> IF HasAgentLoop THEN RecentThoughts(thoughts, RouteCount) ELSE <<>>])
    /\ UNCHANGED <<cacheVars, cronVars, schedVars, queueVars, agentVars, daemonVars, api_log,
                   samplerVars>>

\* The configurations served: every component, and the API without the agent loop
ApiConfigs == {FullConfig, [FullConfig EXCEPT !.agent = FALSE]}

\* The daemon serves; the agent loop, when enabled, has made n cycles.
ServingAfter(n) ==
    /\ config \in ApiConfigs
    /\ made = MadeBy(config)
    /\ comp_task = TasksOf(config)
    /\ status = "running"
    /\ daemon_running = TRUE
    /\ daemon_pc = "serving"
    /\ config_daemon = DaemonSection
    /\ uptime = 0
    /\ cycles_completed = 0
    /\ snapshots = <<>>
    /\ shutdown_log = <<>>
    /\ beats = 0
    /\ cycle = IF config.agent THEN n ELSE 0
    /\ thoughts = IF config.agent THEN [i \in 1..n |-> i] ELSE <<>>
    /\ thoughts_len = IF config.agent THEN n ELSE 0
    /\ agent_running = (config.agent /\ n # 0)
    /\ agent_pc = IF ~config.agent THEN "off" ELSE IF n = 0 THEN "created" ELSE "sleep"
    /\ clock = 1000
    /\ behaviors = <<>>
    /\ behavior_timers = <<>>
    /\ dispatched = <<>>
    /\ drains = <<>>
    /\ enq_live = {}
    /\ stop_requested = FALSE
    /\ consciousness_level = 0
    /\ pending_actions = <<>>
    /\ enq_log = <<>>
    /\ tasks = <<>>
    /\ has_agent = config.agent
    /\ sched_running = FALSE
    /\ sched_pc = "off"
    /\ polls = 0
    /\ fire_log = <<>>
    /\ api_log = <<>>
    /\ recent_log = <<>>
    /\ CacheOff /\ CronOff /\ SamplerOff

InitApi == ServingAfter(0)

\* The requests, another producer, and the agent loop.
NextApi ==
    \/ \E msg \in Messages : Interact(msg)
    \/ AgentAddTask("report")
    \/ AgentRun
    \/ AgentCycleStart
    \/ AgentBehaviors
    \/ AgentProcessAction
    \/ AgentDrainDone
    \/ AgentSleep
    \/ AgentWake(0)

SpecApi == InitApi /\ [][NextApi]_vars

InitThoughts == \E n \in CyclesBefore : ServingAfter(n)

\* The agent loop and the readers of its thought log.
NextThoughts ==
    \/ \E count \in Counts : GetRecentThoughts(count)
    \/ \E count \in Counts : GetThoughtsRoute(count)
    \/ AgentRun
    \/ AgentCycleStart
    \/ AgentBehaviors
    \/ AgentDrainDone
    \/ AgentSleep
    \/ AgentWake(0)

SpecThoughts == InitThoughts /\ [][NextThoughts]_vars

\* ------------------------------------------------------- claims: the cache

\* C1: for every capacity K >= 1 and every sequence of load_model / generate
\* calls, the cache holds at most K entries whenever no call is in progress
\* (every call made so far has returned).
C1_CacheWithinCapacity ==
    (\A c \in Callers : ~Running(c)) =>
        /\ Len(loaded_models) <= max_loaded
        /\ Len(model_usage) <= max_loaded

\* A call that missed on a full cache has returned after inserting its model.
C1_Witness ==
    \E c \in Callers :
        /\ call[c].pc = "returned"
        /\ call[c].full
        /\ call[c].result \in {"loaded", "generated"}
        /\ call[c].name \in Range(loaded_models)
        /\ Len(loaded_models) = max_loaded

\* C2: a cache hit refreshes the entry's last-used instant, so whenever an
\* insertion evicts an entry, the evicted entry was accessed no later than any
\* entry that stays (capacity 2, accesses A, B, A, C: C evicts B, not A).
C2_EvictsLeastRecentlyAccessed ==
    [][\A n \in Range(loaded_models), m \in Range(loaded_models) :
          (n \notin Range(loaded_models') /\ m \in Range(loaded_models'))
              => accessed[n] <= accessed[m]]_vars

\* C3: when the loader fails on a miss, the call returns with the cache exactly
\* as it was when the call started, whatever its fill level.
C3_FailedLoadLeavesCacheUnchanged ==
    [][\A c \in Callers :
          (/\ call[c].pc # "returned"
           /\ call'[c].pc = "returned"
           /\ call'[c].result \in {"load_failed", "unavailable"})
              => <<loaded_models', model_usage'>> = call[c].pre]_vars

\* C4: two callers that both missed, on different names, on a cache that was at
\* capacity when their tasks were created: once both have returned the cache
\* holds at most K entries, in every interleaving of the two tasks.
C4_RacingMissesWithinCapacity ==
    (/\ \A c \in Callers : call[c].pc = "returned" /\ call[c].full
     /\ call["c1"].name # call["c2"].name)
        => Len(loaded_models) <= max_loaded

\* Both tasks were pending together on a full cache, both loaded and returned.
C4_Witness ==
    /\ \A c \in Callers :
          call[c].pc = "returned" /\ call[c].full /\ call[c].result = "loaded"
    /\ call["c1"].name # call["c2"].name
    /\ \E c \in Callers : call[c].overlap
    /\ Len(loaded_models) = max_loaded

\* ------------------------------------------------- claims: the cron matcher

\* What a field of a spec demands of the matching component of the instant.
FieldAccepts(tok, v) == tok = Star \/ (IsInt(tok) /\ ParseInt(tok) = v)

WellFormed(schedule) ==
    /\ Len(schedule) = 5
    /\ \A i \in 1..5 : schedule[i] = Star \/ IsInt(schedule[i])

\* C5: the matcher returns true for (spec, instant) exactly when each of the
\* five fields is `*` or equals the matching component of the instant.
C5_FiresIffAllFieldsMatch ==
    cron_out.done =>
        (cron_out.fires <=>
            /\ Len(cron_task.schedule) = 5
            /\ FieldAccepts(cron_task.schedule[1], cron_time.minute)
            /\ FieldAccepts(cron_task.schedule[2], cron_time.hour)
            /\ FieldAccepts(cron_task.schedule[3], cron_time.day)
            /\ FieldAccepts(cron_task.schedule[4], cron_time.month)
            /\ FieldAccepts(cron_task.schedule[5], cron_time.weekday))

\* C6: a malformed spec (a field count other than five, or a field that is
\* neither `*` nor an integer) never fires, at any instant.
C6_MalformedNeverFires ==
    (cron_out.done /\ ~WellFormed(cron_task.schedule)) => ~cron_out.fires

\* --------------------------------------------------- claims: the scheduler

\* C7: for every job and every wall-clock minute, the scheduler fires the job
\* at most once within that minute.
C7_AtMostOncePerMinute ==
    \A i \in 1..Len(fire_log), j \in 1..Len(fire_log) :
        (i # j /\ fire_log[i].name = fire_log[j].name)
            => fire_log[i].minute # fire_log[j].minute

\* A job has fired in two successive minutes, once in each.
C7_Witness ==
    \E i \in 1..Len(fire_log), j \in 1..Len(fire_log) :
        /\ fire_log[i].name = fire_log[j].name
        /\ fire_log[j].minute = fire_log[i].minute + 1

\* The minute in which every explored run of the scheduler starts.
StartMinute == 8 * 60 + 59

\* C8: while the scheduler runs, every minute that has gone by and matches a
\* job's spec has seen that job fired, whatever the jitter of the polls.
C8_NoMatchingMinuteMissed ==
    (sched_running /\ sched_pc \in {"poll", "sleep"}) =>
        \A k \in 1..Len(tasks) :
            \A m \in StartMinute..(MinuteOf(clock) - 1) :
                ShouldExecute(tasks[k], TimeOf(m * 60)) =>
                    \E i \in 1..Len(fire_log) :
                        fire_log[i].name = tasks[k].name /\ fire_log[i].minute = m

C10_QueueIsFifo ==
    /\ dispatched \o pending_actions = enq_log
    /\ agent_pc = "update" => pending_actions = <<>>

\* A drain has just finished that took two actions of different producers,
\* and an earlier drain has taken another.
C10_Witness ==
    /\ agent_pc = "update"
    /\ cycle >= 2
    /\ Len(dispatched) >= 3
    /\ \E i \in 1..Len(dispatched) : dispatched[i].type \in ProducerTypes
    /\ \E i \in 1..Len(dispatched) : dispatched[i].type \notin ProducerTypes

Seqs == 1..(MaxActions + 2 * MaxCycles)

WasDispatched(s) == \E i \in 1..Len(dispatched) : dispatched[i].seq = s

IsQueued(s) == \E i \in 1..Len(pending_actions) : pending_actions[i].seq = s

\* C12: every action enqueued while the Reasoning Loop is running is
\* eventually removed from the live queue and dispatched exactly once: it is
\* never dispatched twice, never leaves the queue without having been
\* dispatched, and is dispatched in the end.
C12_EnqueuedIsDispatchedOnce ==
    /\ [](\A i \in 1..Len(dispatched), j \in 1..Len(dispatched) :
              dispatched[i].seq = dispatched[j].seq => i = j)
    /\ [](\A s \in enq_live : IsQueued(s) \/ WasDispatched(s))
    /\ \A s \in Seqs : (s \in enq_live) ~> WasDispatched(s)

\* C13: an action whose handler raises, or whose kind has no handler, is
\* dropped and the drain continues with the next queued action; such an action
\* does not end the loop, which exits only after a stop request has cleared
\* self.running.
C13_FaultyActionIsDroppedLoopGoesOn ==
    [][/\ (/\ Len(dispatched') = Len(dispatched) + 1
           /\ HandlerOutcome(dispatched'[Len(dispatched')]) \in {"raised", "unknown"})
            => /\ agent_pc' = "drain"
               /\ pending_actions' = Tail(pending_actions)
               /\ agent_running' = agent_running
       /\ (agent_pc # "exited" /\ agent_pc' = "exited") => ~agent_running]_vars

\* One drain took an action whose handler raised and, right after it, an action
\* of unknown kind; the loop is still running and has begun a later drain.
C13_Witness ==
    /\ agent_running
    /\ \E k \in 1..(Len(drains) - 1) :
          \E i \in 1..(drains[k].count - 1) :
              /\ HandlerOutcome(DrainTook(drains[k])[i]) = "raised"
              /\ HandlerOutcome(DrainTook(drains[k])[i + 1]) = "unknown"

\* ------------------------------------------------ claims: the activity score

\* C14: in every reachable state the activity score (consciousness_level) lies
\* in [0, 1], and across consecutive status observations while the daemon runs
\* it never decreases.
C14_ScoreInUnitRangeAndRising ==
    /\ consciousness_level >= 0
    /\ consciousness_level <= ScoreUnit
    /\ \A i \in 1..Len(snapshots) :
          /\ snapshots[i].consciousness_level >= 0
          /\ snapshots[i].consciousness_level <= ScoreUnit
    /\ \A i \in 1..(Len(snapshots) - 1) :
          (snapshots[i].status = "running" /\ snapshots[i + 1].status = "running")
              => snapshots[i].consciousness_level <= snapshots[i + 1].consciousness_level

\* Two consecutive observations: the score rose between them, and the later
\* one shows it held at 1 by the clamp (the sum of the terms is above 1) with
\* the thought log at its cap.
C14_Witness ==
    /\ thoughts_len = ThoughtCap
    /\ cycle > ThoughtCap
    /\ uptime * UptimeWeight + cycles_completed * CyclesWeight
          + thoughts_len * ThoughtsWeight > ScoreUnit
    /\ \E i \in 1..(Len(snapshots) - 1) :
          /\ snapshots[i].consciousness_level > 0
          /\ snapshots[i].consciousness_level < snapshots[i + 1].consciousness_level
          /\ snapshots[i + 1].consciousness_level = ScoreUnit

\* ------------------------------------------------------ claims: the daemon

\* The place of a status value on the lifecycle; the code has the one value
\* "shutdown" for ShuttingDown and Stopped.
LifecycleRank(st) ==
    CASE st = "initializing" -> 0
      [] st = "running" -> 1
      [] st = "shutdown" -> 2

\* C15: the lifecycle status only moves forward along Initializing -> Running
\* -> ShuttingDown -> Stopped: for any sequence of start(), shutdown(), signal
\* deliveries and API shutdown requests it never returns to an earlier state.
C15_StatusOnlyMovesForward ==
    [][LifecycleRank(status') >= LifecycleRank(status)]_vars

\* C16: calling shutdown() twice in a row leaves the daemon in the same
\* terminal status as calling it once, and the second call is a no-op that
\* does not raise.
C16_SecondShutdownIsNoOp ==
    \A i \in 2..Len(shutdown_log) :
        shutdown_log[i].before = "shutdown"
            => (status = "shutdown" /\ shutdown_log[i].raised = "nothing")

\* C17: after shutdown() is invoked every started component has been sent a
\* stop request (the agent loop's running flag is cleared), and when the
\* daemon has stopped every component's loop has exited of itself: none was
\* force-terminated.
C17_ShutdownStopsEveryComponent ==
    /\ (shutdown_log # <<>> /\ "agent_loop" \in made) => ~agent_running
    /\ daemon_pc = "exited" =>
          \A c \in Components : comp_task[c] \in {"none", "returned", "raised"}

\* C18: when a single component task has raised while the daemon was Running,
\* and no shutdown() call, signal or API request has been made, the daemon
\* status stays Running and the siblings keep running.
C18_SiblingsSurviveComponentError ==
    (/\ \E c \in Components : comp_task[c] = "raised"
     /\ \A i \in 1..Len(shutdown_log) : shutdown_log[i].by = "start")
        => /\ status = "running"
           /\ \A d \in Components : comp_task[d] # "cancelled"

\* A dependent component is enabled while the agent loop it depends on is not.
DependentWithoutAgent(cfg) ==
    /\ ~cfg.agent
    /\ cfg.task_scheduler \/ cfg.event_monitoring \/ cfg.bitcoin_mining

C20_StatusIsSnapshotCopy ==
    /\ status \in {"initializing", "running", "shutdown"}
    /\ config_daemon = DaemonSection
    /\ \A i \in 1..Len(snapshots) :
          /\ snapshots[i].config = LiveConfig => config_daemon = DaemonSection
          /\ snapshots[i].status = "initializing" =>
                /\ snapshots[i].cycles_completed = 0
                /\ ~snapshots[i].components.model_manager
          /\ snapshots[i].cycles_completed > 0 <=> snapshots[i].uptime > 0

\* C21: the cycle counter only increases: each heartbeat of the main loop adds
\* exactly one to cycles_completed, and no other step of the daemon or of a
\* component (start, shutdown, a signal, a status read, an edit of a returned
\* status, a component failure) decreases or resets it.
C21_CycleCounterOnlyIncreases ==
    [][IF beats' = beats + 1
       THEN cycles_completed' = cycles_completed + 1
       ELSE cycles_completed' = cycles_completed]_vars

\* Two heartbeats were made; the daemon was then shut down and the holder of a
\* status taken before overwrote its fields: the counter still shows both.
C21_Witness ==
    /\ beats = 2
    /\ cycles_completed = 2
    /\ status = "shutdown"
    /\ \E i \in 1..Len(snapshots) :
          snapshots[i].status = "edited" /\ snapshots[i].cycles_completed < 2

\* ----------------------------------------------------- claims: the API
\* the action a POST /interact with this message is to append
WantedAction(a, msg) == a.type = "user_interaction" /\ a.message = msg

\* C22 as claimed: each POST /interact request appends exactly one action of
\* kind "user_interaction" carrying the request's message to the tail of the
\* action queue and answers "received"; nothing already queued is removed or
\* reordered.
C22_InteractAppendsOneAction ==
    \A i \in 1..Len(api_log) :
        /\ api_log[i].status = "received"
        /\ Len(api_log[i].after) = Len(api_log[i].before) + 1
        /\ SubSeq(api_log[i].after, 1, Len(api_log[i].before)) = api_log[i].before
        /\ WantedAction(api_log[i].after[Len(api_log[i].after)], api_log[i].message)

\* C22 amended: every POST /interact answers "received".  When the daemon has
\* an agent loop, the request appends exactly one action of kind
\* "user_interaction" carrying the request's message (the empty string when
\* the body has none) to the tail of the queue and removes or reorders nothing
\* queued; when the agent loop is disabled, it enqueues nothing.
C22_InteractAppendsWhenLoopExists ==
    \A i \in 1..Len(api_log) :
        /\ api_log[i].status = "received"
        /\ IF HasAgentLoop
           THEN /\ Len(api_log[i].after) = Len(api_log[i].before) + 1
                /\ SubSeq(api_log[i].after, 1, Len(api_log[i].before)) = api_log[i].before
                /\ WantedAction(api_log[i].after[Len(api_log[i].after)], api_log[i].message)
           ELSE api_log[i].after = api_log[i].before /\ pending_actions = <<>>

\* A request found two actions queued, one of them an earlier request's, and
\* put its own behind them.
C22_Witness ==
    /\ HasAgentLoop
    /\ \E i \in 1..Len(api_log) :
          /\ Len(api_log[i].before) = 2
          /\ \E k \in 1..2 : api_log[i].before[k].type = "user_interaction"
          /\ \E k \in 1..2 : api_log[i].before[k].type = "report"
          /\ Len(api_log[i].after) = 3
          /\ api_log[i].after[3].message = "hello"

\* The last n entries of a log, oldest first (the whole log when it has fewer).
LastOf(log, n) == SubSeq(log, IF Len(log) > n THEN Len(log) - n + 1 ELSE 1, Len(log))

\* C23: the thought log is a capped rolling log: it never holds more than 100
\* entries, trimming removes only the oldest entries, and a request for the
\* last N thoughts (GET /thoughts?count=N, get_recent_thoughts(N)) returns at
\* most N entries: the N most recent, oldest first.
C23_ThoughtLogIsCappedRollingLog ==
    /\ [](Len(thoughts) <= ThoughtCap)
    /\ [][thoughts' # thoughts =>
            thoughts' = LastOf(Append(thoughts, cycle'), Len(thoughts'))]_vars
    /\ [](\A i \in 1..Len(recent_log) :
             /\ Len(recent_log[i].got) <= recent_log[i].count
             /\ recent_log[i].got = LastOf(recent_log[i].had, recent_log[i].count))

PostedKind(action) ==
    IF action = "generate_status_report" THEN "report"
    ELSE IF action = "analyze_code_health" THEN "code_health_check"
    ELSE "benchmark"

TickSawChange == git_log[1].seen # git_log[1].last

\* the latest scan found the directory with files newer than the last check
ScanSawChange == em_log[1].exists /\ em_log[1].modified > 0

C26_NoEventWithoutTooling ==
    /\ (git_log # <<>> /\ ~git_log[1].ok) => git_log[1].events = <<>>
    /\ (em_log # <<>> /\ ~em_log[1].exists) => em_log[1].after = em_log[1].before
    /\ git_log # <<>> => last_seen.running
    /\ em_log # <<>> => watch.on

\* ----------------------------------------- claims: the cycle of the loop
\* An action a behavior posted (lines 228, 247, 274), not one of a producer.
IsBehaviorAction(a) ==
    \/ a.type \in {"log_analysis", "documentation_check"}
    \/ a.type = "conversation" /\ "message" \in DOMAIN a

\* The actions enqueued before cycle k ran its behaviors were all enqueued by
\* the time drain k - 1 began, or in the sleep after it.
EnqueuedByDrain(k) == IF k = 0 THEN 0 ELSE drains[k].start

\* C27 as claimed: within a cycle the loop drains the queue, then runs the due
\* behaviors, then recomputes the score, then sleeps; so an action a behavior
\* enqueues in cycle n is first dispatched in cycle n + 1.
C27_DrainThenBehaviors ==
    /\ [][agent_pc' # agent_pc =>
            <<agent_pc, agent_pc'>> \in
                {<<"created", "top">>, <<"top", "drain">>, <<"top", "exited">>,
                 <<"drain", "behaviors">>, <<"behaviors", "update">>,
                 <<"update", "sleep">>, <<"sleep", "top">>}]_vars
    /\ [](\A k \in 1..Len(drains) :
             \A i \in 1..Len(DrainTook(drains[k])) :
                 IsBehaviorAction(DrainTook(drains[k])[i]) =>
                     /\ k > 1
                     /\ DrainTook(drains[k])[i].seq <= drains[k - 1].start)

\* C27 amended: within a cycle the loop records its thought, then runs the
\* due behaviors, then drains the queue, then recomputes the score, then
\* sleeps; so an action a behavior enqueues in cycle n is dispatched in the
\* drain of the same cycle n, and every drain leaves nothing that was
\* enqueued before it began.
C27_BehaviorsThenDrain ==
    /\ [][agent_pc' # agent_pc =>
            <<agent_pc, agent_pc'>> \in
                {<<"created", "top">>, <<"top", "behaviors">>, <<"top", "exited">>,
                 <<"behaviors", "drain">>, <<"drain", "update">>,
                 <<"update", "sleep">>, <<"sleep", "top">>}]_vars
    /\ [](\A k \in 1..Len(drains) :
             /\ (k < Len(drains) \/ agent_pc # "drain") =>
                    drains[k].from + drains[k].count = drains[k].start
             /\ \A i \in 1..Len(DrainTook(drains[k])) :
                    IsBehaviorAction(DrainTook(drains[k])[i]) =>
                        DrainTook(drains[k])[i].seq > EnqueuedByDrain(k - 1))

\* A behavior of the second cycle posted an action behind one a producer had
\* enqueued during the sleep, and the drain of that cycle took both.
C27_Witness ==
    /\ Len(drains) = 2
    /\ agent_pc = "update"
    /\ drains[1].count > 0
    /\ drains[2].count = 2
    /\ ~IsBehaviorAction(DrainTook(drains[2])[1])
    /\ IsBehaviorAction(DrainTook(drains[2])[2])
    /\ DrainTook(drains[2])[2].seq > drains[1].start

\* C28: when the agent loop receives a stop request while cycling, it finishes
\* the cycle in progress (the steps still follow in their order, and the
\* drain in progress takes everything that was queued when it began: no drain
\* is left half done) and then exits without starting another cycle.
C28_StopFinishesCycleThenExits ==
    /\ [][(~agent_running /\ agent_pc # "created") =>
            /\ cycle' = cycle
            /\ agent_pc' # agent_pc =>
                  <<agent_pc, agent_pc'>> \in
                      {<<"behaviors", "drain">>, <<"drain", "update">>,
                       <<"update", "sleep">>, <<"sleep", "top">>, <<"top", "exited">>}]_vars
    /\ [](\A k \in 1..Len(drains) :
             (k < Len(drains) \/ agent_pc # "drain") =>
                 drains[k].from + drains[k].count = drains[k].start)
    /\ (~agent_running /\ agent_pc # "created") ~> (agent_pc = "exited")

\* The stop request came during the first cycle, whose drain had two queued
\* actions to take; the loop took both, finished the cycle and exited.
C28_Witness ==
    /\ agent_pc = "exited"
    /\ ~agent_running
    /\ cycle = 1
    /\ Len(drains) = 1
    /\ drains[1].count = 2
    /\ pending_actions = <<>>

\* the types of the actions the step from enq_log to enq_log' enqueued
PostedTypes ==
    {enq_log'[k].type : k \in (Len(enq_log) + 1)..Len(enq_log')}

\* C29: in the cycle observed at time now (clock), an enabled behavior is
\* executed (its action is posted, its last_run is written) if and only if
\* now - last_run >= its interval, and its last_run then is the timestamp now,
\* not a cycle count; the test reads the behavior's own timer only, so every
\* timer is independent of the others; a behavior whose enabled flag is false
\* has no timer and is never executed; no other step writes a timer.
C29_BehaviorRunsIffItsOwnIntervalPassed ==
    [][IF agent_pc = "behaviors"
       THEN \A i \in 1..Len(behaviors) :
                LET b == behaviors[i]
                    posts == BehaviorAction(b.name) # "nothing"
                IN  IF ~b.enabled
                    THEN /\ b.name \notin DOMAIN behavior_timers'
                         /\ posts => BehaviorAction(b.name) \notin PostedTypes
                    ELSE IF clock - behavior_timers[b.name] >= b.interval
                    THEN /\ behavior_timers'[b.name] = clock
                         /\ behavior_timers'[b.name] # cycle
                         /\ posts => BehaviorAction(b.name) \in PostedTypes
                    ELSE /\ behavior_timers'[b.name] = behavior_timers[b.name]
                         /\ posts => BehaviorAction(b.name) \notin PostedTypes
       ELSE behavior_timers' = behavior_timers]_vars

\* In the second cycle the conversation starter, whose interval had passed
\* exactly, ran again while the documentation check, whose interval is twice
\* as long, was left alone: its timer still holds the first cycle's time.
C29_Witness ==
    /\ cycle = 2
    /\ agent_pc = "drain"
    /\ "documentation_updater" \in DOMAIN behavior_timers
    /\ "conversation_initiator" \in DOMAIN behavior_timers
    /\ behavior_timers["conversation_initiator"] = clock
    /\ behavior_timers["documentation_updater"] = clock - LoopInterval
    /\ behavior_timers["documentation_updater"] > 0

\* the entry n of usage has the oldest last_used, and among the entries with
\* that same last_used it is the one inserted earliest
OldestThenEarliest(usage, n) ==
    \E i \in 1..Len(usage) :
        /\ usage[i].name = n
        /\ \A j \in 1..Len(usage) :
              \/ j = i
              \/ usage[j].last_used > usage[i].last_used
              \/ usage[j].last_used = usage[i].last_used /\ j > i

\* C30: an insertion into a full cache (the call began with max_loaded entries
\* and its load succeeded) evicts exactly one of the entries the call found:
\* the one whose recorded last_used is oldest and, among entries of equal
\* last_used, the one inserted earliest; the inserted entry is in the cache
\* when the call returns, and the others are all kept.
C30_InsertionEvictsOneOldestEntry ==
    [][\A c \in Callers :
          (/\ call[c].pc = "lm_load"
           /\ call'[c].result = "loaded"
           /\ Len(call[c].pre[1]) >= max_loaded)
          => LET before == call[c].pre[1]
                 usage == call[c].pre[2]
                 gone == {n \in Range(before) : n \notin Range(loaded_models')}
             IN  /\ Cardinality(gone) = 1
                 /\ \A n \in gone : OldestThenEarliest(usage, n)
                 /\ call[c].name \in Range(loaded_models')
                 /\ call[c].name \in UsageNames(model_usage')
                 /\ Range(loaded_models') = (Range(before) \ gone) \cup {call[c].name}
                 /\ UsageNames(model_usage') = Range(loaded_models')]_vars

\* A third name was loaded into a cache of two entries while the clock stood
\* still, so both entries had the same last_used; the call has returned with
\* the new entry last and the later-inserted of the two old entries kept.
C30_Witness ==
    /\ max_loaded = 2
    /\ now = 0
    /\ call["c1"].pc = "returned"
    /\ call["c1"].op = "load_model"
    /\ call["c1"].result = "loaded"
    /\ call["c1"].full
    /\ Len(loaded_models) = 2
    /\ loaded_models[2] = call["c1"].name

\* ------------------------------------------------ claims: the last sitting

\* the place of task t in the order start() created the tasks
StartPlace(t) == CHOOSE i \in 1..Len(StartOrder) : StartOrder[i] = t

\* C31: on shutdown or a termination signal the components are stopped in the
\* reverse of the order in which start() launched them: once shutdown has
\* been called, a task stops running only when every task launched after it
\* has stopped already.
C31_StoppedInReverseStartOrder ==
    [][\A t \in Components \cup {MainLoop} :
          (/\ shutdown_log # <<>>
           /\ comp_task[t] = "running"
           /\ comp_task'[t] # "running")
          => \A u \in Components \cup {MainLoop} :
                StartPlace(u) > StartPlace(t) => comp_task[u] # "running"]_vars

\* a term of the score held at its weight: the fraction clamped to 1
\* before the weight is applied
ClampedTerm(fractionTimesWeight, whole) ==
    IF fractionTimesWeight < whole THEN fractionTimesWeight ELSE whole

\* C32: the activity score is computed from three fractions (uptime over a
\* day, cycles over 10000, thoughts over 100), each clamped to [0, 1] before
\* its weight (0.3, 0.3, 0.4) is applied: every update stores the sum of the
\* three clamped terms, so no factor contributes more than its weight.
C32_EachFractionClampedBeforeWeight ==
    [][(agent_pc = "update" /\ agent_pc' = "sleep") =>
          consciousness_level' =
              AtMostOne(ClampedTerm(uptime * UptimeWeight, 86400 * UptimeWeight)
                        + ClampedTerm(cycles_completed * CyclesWeight, 10000 * CyclesWeight)
                        + ClampedTerm(thoughts_len * ThoughtsWeight,
                                      ThoughtCap * ThoughtsWeight))]_vars

\* C33: a scheduled job whose configuration carries enabled = false never
\* fires, whatever its schedule and the current instant: every job in the
\* log of fired jobs is an enabled one.
C33_DisabledJobNeverFires ==
    \A i \in 1..Len(fire_log) :
        \A k \in 1..Len(tasks) :
            tasks[k].name = fire_log[i].name => tasks[k].enabled

\* the jobs the step from fire_log to fire_log' fired
FiredNow == SubSeq(fire_log', Len(fire_log) + 1, Len(fire_log'))

\* the actions the step from enq_log to enq_log' enqueued
EnqueuedNow == SubSeq(enq_log', Len(enq_log) + 1, Len(enq_log'))

\* C34: an error raised while firing one scheduled job is caught: in every
\* poll each job that is due is still fired, those after the failing one
\* included, the jobs whose handler did not raise post their actions (when
\* their kind posts one), and the
\* scheduler goes to its sleep with its running flag as it was, so that it
\* polls again on the next tick.
C34_JobErrorIsCaughtPollGoesOn ==
    [][polls' = polls + 1 =>
          LET due == DueTasks(tasks, clock)
              good == SelectSeq(FiredNow,
                                LAMBDA f : ~f.raised /\ EnqueuedType(f.action) # "nothing")
          IN  /\ Len(FiredNow) = Len(due)
              /\ \A k \in 1..Len(due) : FiredNow[k].name = due[k].name
              /\ Len(EnqueuedNow) = Len(good)
              /\ \A k \in 1..Len(good) : EnqueuedNow[k].type = EnqueuedType(good[k].action)
              /\ sched_pc' = "sleep"
              /\ sched_running' = sched_running]_vars

\* In one poll the handler of the first job raised and the second job, due in
\* the same minute, was fired after it and posted its action; the scheduler
\* has polled again since, in the next minute.
C34_Witness ==
    \E i \in 1..(Len(fire_log) - 2) :
        /\ fire_log[i].raised
        /\ ~fire_log[i + 1].raised
        /\ fire_log[i + 1].minute = fire_log[i].minute
        /\ fire_log[i + 1].name # fire_log[i].name
        /\ fire_log[i + 2].minute > fire_log[i].minute
        /\ \E k \in 1..Len(enq_log) : enq_log[k].type = EnqueuedType(fire_log[i + 1].action)

C36_EveryModificationIsReported ==
    [][(watch.scan = "read" /\ watch'.scan = "idle" /\ watch.modified > 0) =>
          /\ Len(enq_log') = Len(enq_log) + 1
          /\ enq_log'[Len(enq_log')].type = "file_change_event"
          /\ enq_log'[Len(enq_log')].files = watch.modified]_vars

\* the polling tasks that can still hand an event to the handler
AliveTasks == {i \in 1..Len(git_tasks.states) : git_tasks.states[i] = "running"}

\* the polling tasks that are not done
UnfinishedTasks == {i \in 1..Len(git_tasks.states) : git_tasks.states[i] # "done"}

\* C37 as stated: for any interleaving of start() and stop() calls at most one
\* polling task is alive (created and not done) at a time.
C37_AtMostOneUnfinishedTask == Cardinality(UnfinishedTasks) <= 1

\* C37: for any interleaving of start() and stop() calls on the git watcher at
\* most one polling task is alive and not cancelled at a time; start() while
\* already running creates no second task; every event comes from the task
\* start() created last; a task that is done stays done, and when stop()
\* returns the task it cancelled is done, so no further event reaches the
\* handler from it.
C37_AtMostOnePollingTask ==
    /\ [](Cardinality(AliveTasks) <= 1)
    /\ [][/\ (git_tasks'.calls # git_tasks.calls /\ last_seen.running)
              => git_tasks'.states = git_tasks.states
          /\ git_log' # git_log
              => /\ git_tasks'.last_tick = git_tasks.task
                 /\ git_tasks'.last_tick \in AliveTasks
                 /\ git_tasks'.last_tick \notin git_tasks.awaits
          /\ \A i \in 1..Len(git_tasks.states) :
                /\ git_tasks.states[i] = "done" => git_tasks'.states[i] = "done"
                /\ (i \in git_tasks.awaits /\ i \notin git_tasks'.awaits)
                      => git_tasks.states[i] = "done"]_vars

\* start() was called while a stop() was waiting for the cancelled task: the
\* new task has made a turn, the old one is done and stop() is about to
\* return; one more start() since then created nothing.
C37_Witness ==
    /\ git_tasks.states = <<"done", "running">>
    /\ git_tasks.task = 2
    /\ git_tasks.awaits = {1}
    /\ git_tasks.last_tick = 2
    /\ git_tasks.calls = 3
    /\ last_seen.running

C39_LoadedAndUsageHoldSameNames == Range(loaded_models) = UsageNames(model_usage)

\* A load into a full cache has returned: one model was evicted, the new one
\* is cached, and the cache is full again.
C39_Witness ==
    /\ call["c1"].pc = "returned"
    /\ call["c1"].full
    /\ call["c1"].result = "loaded"
    /\ call["c1"].name \in Range(loaded_models)
    /\ Len(loaded_models) = max_loaded
    /\ max_loaded = MaxCapacity

====
